---- MODULE Spec2Model ----
(***************************************************************************)
(* Model of the Backstage connector's Markdown section splitter            *)
(* (backend/onyx/connectors/backstage/markdown_splitter.py).               *)
(*                                                                         *)
(* Text is a sequence of characters; a character is a one-character        *)
(* string, except the backquote, which SANY's lexer does not accept        *)
(* inside a string and which is written Backtick.                          *)
(***************************************************************************)
EXTENDS Integers, Sequences, FiniteSets, TLC

VARIABLES
    markdown_content,   \* argument of split_into_sections: the Markdown text
    section_anchors,    \* the anchor map, a dict in insertion order: <<key, value>> pairs
    splitting_mode,     \* MarkdownSectionSplitter.splitting_mode
    pc,                 \* "parse": in the loop of parse_markdown_headers; "done": returned
    lines,              \* local of parse_markdown_headers: markdown_content.split('\n')
    line_num,           \* number of lines the loop of parse_markdown_headers has consumed
    in_code_block,      \* local of parse_markdown_headers
    code_block_marker,  \* local of parse_markdown_headers (None when no fence is open)
    headers,            \* local of parse_markdown_headers: the HeaderInfo list
    sections            \* the list split_into_sections returns

VARIABLES
    slug_title,         \* argument of a direct call of _generate_anchor_from_title
    slug_anchor,        \* what that call returns
    url_base_url,       \* create_section_url: argument base_url
    url_anchor_id,      \* create_section_url: argument anchor_id
    url_result,         \* what create_section_url returns
    html_headers,       \* the h1..h6 elements of the parsed html_content, in document order
    clean_content,      \* clean_markdown: argument content
    clean_result,       \* what clean_markdown returns
    clean_calls,        \* number of clean_markdown calls made, each on the previous result
    conv_html,          \* convert_html_to_markdown: the parsed html_content
    conv_pc,            \* position in convert_html_to_markdown
    main_content,       \* local of convert_html_to_markdown
    output_lines,       \* HTMLToMarkdownConverter.output_lines
    conv_result         \* outcome of convert_html_to_markdown

VARIABLES
    gl_merge_requests,  \* GitlabConnector: what project.mergerequests.list returns
    gl_issues,          \* GitlabConnector: what project.issues.list returns
    gl_batch_size,      \* GitlabConnector.batch_size
    gl_start,           \* _fetch_from_gitlab: argument start
    gl_end,             \* _fetch_from_gitlab: argument end
    gl_pc,              \* position in _fetch_from_gitlab
    gl_index,           \* number of objects of the current list consumed
    gl_doc_batch,       \* local mr_doc_batch / issue_doc_batch
    gl_yielded,         \* the batches _fetch_from_gitlab has yielded, in order
    blob_objects,       \* BackstageConnector: what the paginator lists, page after page
    blob_batch_size,    \* BackstageConnector.batch_size
    blob_start,         \* _yield_blob_objects: argument start
    blob_end,           \* _yield_blob_objects: argument end
    blob_pc,            \* position in _yield_blob_objects
    blob_index,         \* number of listed entries consumed
    blob_batch,         \* local batch of _yield_blob_objects
    blob_yielded        \* the batches _yield_blob_objects has yielded, in order

gitlabVars == <<gl_merge_requests, gl_issues, gl_batch_size, gl_start, gl_end, gl_pc,
                gl_index, gl_doc_batch, gl_yielded>>

blobVars == <<blob_objects, blob_batch_size, blob_start, blob_end, blob_pc, blob_index,
              blob_batch, blob_yielded>>

\* the variables of the two connectors
connectorVars == <<gitlabVars, blobVars>>

\* the variables of the calls other than split_into_sections / parse_markdown_headers
otherVars == <<slug_title, slug_anchor, url_base_url, url_anchor_id, url_result,
               html_headers, clean_content, clean_result, clean_calls,
               conv_html, conv_pc, main_content, output_lines, conv_result,
               connectorVars>>

vars == <<markdown_content, section_anchors, splitting_mode, pc, lines, line_num,
          in_code_block, code_block_marker, headers, sections, otherVars>>

-----------------------------------------------------------------------------
(* Characters and Python's string primitives *)

Backtick == "backtick"
NL == "\n"
None == <<>>

\* the characters str.strip() removes and the regex class \s matches
Whitespace == {" ", "\t", "\n", "\r"}

IsSpace(c) == c \in Whitespace

Min(a, b) == IF a <= b THEN a ELSE b

\* s[lo:hi] of Python for 0 <= lo, 0 <= hi: indices clamp to the length
PySlice(s, lo, hi) == SubSeq(s, lo + 1, Min(hi, Len(s)))

\* s.startswith(p)
StartsWith(s, p) == Len(s) >= Len(p) /\ SubSeq(s, 1, Len(p)) = p

\* number of leading / trailing whitespace characters of s
RECURSIVE LeadingSpaces(_)
LeadingSpaces(s) ==
    IF s = <<>> \/ ~IsSpace(Head(s)) THEN 0 ELSE 1 + LeadingSpaces(Tail(s))

RECURSIVE TrailingSpaces(_)
TrailingSpaces(s) ==
    IF s = <<>> \/ ~IsSpace(s[Len(s)]) THEN 0
    ELSE 1 + TrailingSpaces(SubSeq(s, 1, Len(s) - 1))

\* s.strip()
Strip(s) ==
    LET lead == LeadingSpaces(s)
    IN  IF lead = Len(s) THEN <<>>
        ELSE SubSeq(s, lead + 1, Len(s) - TrailingSpaces(s))

\* s.split('\n'): always at least one element
RECURSIVE SplitFrom(_, _)
SplitFrom(s, cur) ==
    IF s = <<>> THEN <<cur>>
    ELSE IF Head(s) = NL THEN <<cur>> \o SplitFrom(Tail(s), <<>>)
    ELSE SplitFrom(Tail(s), Append(cur, Head(s)))

Split(s) == SplitFrom(s, <<>>)

\* '\n'.join(ls)
RECURSIVE Join(_)
Join(ls) ==
    IF ls = <<>> THEN <<>>
    ELSE IF Len(ls) = 1 THEN ls[1]
    ELSE ls[1] \o <<NL>> \o Join(Tail(ls))

\* a in b, for strings
IsSubstring(a, b) ==
    \E k \in 0..(Len(b) - Len(a)) : SubSeq(b, k + 1, k + Len(a)) = a
-----------------------------------------------------------------------------
(* parse_markdown_headers: the tests of the loop body *)

BacktickFence == <<Backtick, Backtick, Backtick>>
TildeFence == <<"~", "~", "~">>

\* the mutant of IsFenceLine: the backtick test is missing
IsFenceLineTildeOnly(stripped_line) == StartsWith(stripped_line, TildeFence)

\* stripped_line.startswith('```') or stripped_line.startswith('~~~')
IsFenceLine(stripped_line) ==
    StartsWith(stripped_line, BacktickFence) \/ StartsWith(stripped_line, TildeFence)

\* stripped_line[:3]
MarkerOf(stripped_line) == PySlice(stripped_line, 0, 3)

\* the mutant of ClosesFence: any fence line closes the open fence
ClosesFenceAnyMarker(stripped_line, marker) == TRUE

\* stripped_line.startswith(code_block_marker)
ClosesFence(stripped_line, marker) == StartsWith(stripped_line, marker)

\* the mutant of IsIndentedCode: the tab test is missing
IsIndentedCodeSpacesOnly(line) == StartsWith(line, <<" ", " ", " ", " ">>)

\* line.startswith('    ') or line.startswith('\t')
IsIndentedCode(line) ==
    StartsWith(line, <<" ", " ", " ", " ">>) \/ StartsWith(line, <<"\t">>)

\* number of leading '#' characters of s
RECURSIVE HashRun(_)
HashRun(s) == IF s = <<>> \/ Head(s) # "#" THEN 0 ELSE 1 + HashRun(Tail(s))

\* the mutant of HeaderMatch: the pattern is #+ instead of #{1,6}
HeaderMatchAnyLevel(s) ==
    LET n == HashRun(s)
        m == LeadingSpaces(SubSeq(s, n + 1, Len(s)))
    IN  IF n >= 1 /\ m >= 1 /\ Len(s) > n + m
        THEN [matched |-> TRUE, group1 |-> SubSeq(s, 1, n),
              group2 |-> SubSeq(s, n + m + 1, Len(s))]
        ELSE [matched |-> FALSE, group1 |-> <<>>, group2 |-> <<>>]

\* re.match(r'^(#{1,6})\s+(.+)$', s) for a string s without '\n' (s is one
\* element of split('\n')).  #{1,6} can only end where the run of '#' ends,
\* since \s must follow it; \s+ is greedy and gives one character back to
\* .+ only when the whitespace runs to the end of s.
HeaderMatch(s) ==
    LET n == HashRun(s)
        m == LeadingSpaces(SubSeq(s, n + 1, Len(s)))
    IN  IF n >= 1 /\ n <= 6 /\ m >= 1 /\ Len(s) > n + m
        THEN [matched |-> TRUE, group1 |-> SubSeq(s, 1, n),
              group2 |-> SubSeq(s, n + m + 1, Len(s))]
        ELSE IF n >= 1 /\ n <= 6 /\ m >= 2
        THEN [matched |-> TRUE, group1 |-> SubSeq(s, 1, n),
              group2 |-> SubSeq(s, Len(s), Len(s))]
        ELSE [matched |-> FALSE, group1 |-> <<>>, group2 |-> <<>>]
-----------------------------------------------------------------------------
(* Anchor resolution *)

LowerCase == <<"a", "b", "c", "d", "e", "f", "g", "h", "i", "j", "k", "l", "m",
               "n", "o", "p", "q", "r", "s", "t", "u", "v", "w", "x", "y", "z">>
UpperCase == <<"A", "B", "C", "D", "E", "F", "G", "H", "I", "J", "K", "L", "M",
               "N", "O", "P", "Q", "R", "S", "T", "U", "V", "W", "X", "Y", "Z">>
Digits == {"0", "1", "2", "3", "4", "5", "6", "7", "8", "9"}

\* the regex class \w
IsWord(c) ==
    \/ \E i \in 1..26 : c = LowerCase[i] \/ c = UpperCase[i]
    \/ c \in Digits
    \/ c = "_"

LowerChar(c) ==
    IF \E i \in 1..26 : c = UpperCase[i]
    THEN LowerCase[CHOOSE i \in 1..26 : c = UpperCase[i]]
    ELSE c

\* s.lower()
Lower(s) == [i \in 1..Len(s) |-> LowerChar(s[i])]

\* re.sub(r'[^\w\s-]', '', s)
RECURSIVE RemoveNonWord(_)
RemoveNonWord(s) ==
    IF s = <<>> THEN <<>>
    ELSE IF IsWord(Head(s)) \/ IsSpace(Head(s)) \/ Head(s) = "-"
    THEN <<Head(s)>> \o RemoveNonWord(Tail(s))
    ELSE RemoveNonWord(Tail(s))

\* the mutant of CollapseHyphens: the pattern is [-\s] instead of [-\s]+
RECURSIVE CollapseEach(_)
CollapseEach(s) ==
    IF s = <<>> THEN <<>>
    ELSE IF IsSpace(Head(s)) \/ Head(s) = "-" THEN <<"-">> \o CollapseEach(Tail(s))
    ELSE <<Head(s)>> \o CollapseEach(Tail(s))

\* re.sub(r'[-\s]+', '-', s)
RECURSIVE CollapseHyphens(_)
CollapseHyphens(s) ==
    IF s = <<>> THEN <<>>
    ELSE IF IsSpace(Head(s)) \/ Head(s) = "-"
    THEN IF Len(s) >= 2 /\ (IsSpace(s[2]) \/ s[2] = "-")
         THEN CollapseHyphens(Tail(s))
         ELSE <<"-">> \o CollapseHyphens(Tail(s))
    ELSE <<Head(s)>> \o CollapseHyphens(Tail(s))

\* s.strip('-')
RECURSIVE StripHyphens(_)
StripHyphens(s) ==
    IF s = <<>> THEN <<>>
    ELSE IF Head(s) = "-" THEN StripHyphens(Tail(s))
    ELSE IF s[Len(s)] = "-" THEN StripHyphens(SubSeq(s, 1, Len(s) - 1))
    ELSE s

generate_anchor_from_title(title) ==
    StripHyphens(CollapseHyphens(RemoveNonWord(Lower(title))))

\* section_anchors.get(title, '')
AnchorGet(anchors, title) ==
    IF \E i \in 1..Len(anchors) : anchors[i][1] = title
    THEN anchors[CHOOSE i \in 1..Len(anchors) : anchors[i][1] = title][2]
    ELSE <<>>

\* the value of the first item, in iteration order, among the items at the positions S
FirstValue(anchors, S) ==
    anchors[CHOOSE i \in S : \A j \in S : i <= j][2]

\* the mutant of find_closest_anchor_match: partial matches are tried first
find_closest_partial_first(title, anchors) ==
    LET title_lower == Lower(title)
        Same == {i \in 1..Len(anchors) : Lower(anchors[i][1]) = title_lower}
        Partial == {i \in 1..Len(anchors) :
                       \/ IsSubstring(title_lower, Lower(anchors[i][1]))
                       \/ IsSubstring(Lower(anchors[i][1]), title_lower)}
    IN  IF Partial # {} THEN FirstValue(anchors, Partial)
        ELSE IF Same # {} THEN FirstValue(anchors, Same)
        ELSE generate_anchor_from_title(title)

\* the mutant of find_closest_anchor_match: no partial match is tried
find_closest_no_partial(title, anchors) ==
    LET title_lower == Lower(title)
        Same == {i \in 1..Len(anchors) : Lower(anchors[i][1]) = title_lower}
    IN  IF Same # {} THEN FirstValue(anchors, Same)
        ELSE generate_anchor_from_title(title)

find_closest_anchor_match(title, anchors) ==
    LET title_lower == Lower(title)
        Same == {i \in 1..Len(anchors) : Lower(anchors[i][1]) = title_lower}
        Partial == {i \in 1..Len(anchors) :
                       \/ IsSubstring(title_lower, Lower(anchors[i][1]))
                       \/ IsSubstring(Lower(anchors[i][1]), title_lower)}
    IN  IF Same # {} THEN FirstValue(anchors, Same)
        ELSE IF Partial # {} THEN FirstValue(anchors, Partial)
        ELSE generate_anchor_from_title(title)

\* lines 147-150: the anchor of a header titled title
ResolveAnchor(title, anchors) ==
    LET anchor_id == AnchorGet(anchors, title)
    IN  IF anchor_id = <<>> THEN find_closest_anchor_match(title, anchors)
        ELSE anchor_id
-----------------------------------------------------------------------------
(* The inputs: Markdown texts of at most MaxLines lines, each line one of LineSet *)

MaxLines == 3

H1Line == <<"#", " ", "n", "o", "t", " ", "a", " ", "h", "e", "a", "d", "e", "r">>
H2Line == <<"#", "#", " ", "b">>
H3SpaceLine == <<" ", "#", "#", "#", " ", "c">>
BacktickLine == <<Backtick, Backtick, Backtick>>
TildeLine == <<" ", "~", "~", "~", "~">>
BlankLine == <<>>
TextLine == <<"t", " ">>
Indent4Line == <<" ", " ", " ", " ", "#", "#", " ", "b">>
TabLine == <<"\t", "#", " ", "a">>
H7Line == <<"#", "#", "#", "#", "#", "#", "#", " ", "a">>
NoSpaceLine == <<"#", "a">>
HashOnlyLine == <<"#", " ">>

LineSet ==
    {H1Line, H2Line, H3SpaceLine, BacktickLine, TildeLine, BlankLine, TextLine,
     Indent4Line, TabLine, H7Line, NoSpaceLine, HashOnlyLine}

Inputs == {Join(ls) : ls \in UNION {[1..n -> LineSet] : n \in 0..MaxLines}}

HIERARCHICAL == "hierarchical"
NON_HIERARCHICAL == "non_hierarchical"

-----------------------------------------------------------------------------
(* State machine: one call of split_into_sections(markdown_content) *)

\* html_content has its default "", so section_anchors stays {}; the call is
\* at the head of the loop of parse_markdown_headers (lines 112-117)
\* no direct call of _generate_anchor_from_title is in progress
SlugIdle == slug_title = <<>> /\ slug_anchor = <<>>

\* no call of create_section_url is in progress
UrlIdle == url_base_url = <<>> /\ url_anchor_id = <<>> /\ url_result = <<>>

\* no html_content was given
ExtractIdle == html_headers = <<>>

\* no direct call of clean_markdown is in progress
CleanIdle == clean_content = <<>> /\ clean_result = <<>> /\ clean_calls = 0

\* no call of GitlabConnector._fetch_from_gitlab is in progress
GitlabIdle ==
    /\ gl_merge_requests = <<>>
    /\ gl_issues = <<>>
    /\ gl_batch_size = 1
    /\ gl_start = 0
    /\ gl_end = 0
    /\ gl_pc = "idle"
    /\ gl_index = 0
    /\ gl_doc_batch = <<>>
    /\ gl_yielded = <<>>

\* no call of BackstageConnector._yield_blob_objects is in progress
BlobIdle ==
    /\ blob_objects = <<>>
    /\ blob_batch_size = 1
    /\ blob_start = 0
    /\ blob_end = 0
    /\ blob_pc = "idle"
    /\ blob_index = 0
    /\ blob_batch = <<>>
    /\ blob_yielded = <<>>

\* no call of convert_html_to_markdown is in progress
ConvertIdle ==
    /\ conv_html = <<>>
    /\ conv_pc = "idle"
    /\ main_content = <<>>
    /\ output_lines = <<>>
    /\ conv_result = <<>>

Init ==
    /\ GitlabIdle /\ BlobIdle
    /\ SlugIdle /\ UrlIdle /\ ExtractIdle /\ CleanIdle /\ ConvertIdle
    /\ markdown_content \in Inputs
    /\ lines = Split(markdown_content)
    /\ section_anchors = <<>>
    /\ splitting_mode \in {HIERARCHICAL, NON_HIERARCHICAL}
    /\ pc = "parse"
    /\ line_num = 0
    /\ in_code_block = FALSE
    /\ code_block_marker = None
    /\ headers = <<>>
    /\ sections = <<>>

line == lines[line_num + 1]
stripped_line == Strip(line)

InLoop == pc = "parse" /\ line_num < Len(lines)

Continue ==
    /\ line_num' = line_num + 1
    /\ UNCHANGED <<markdown_content, section_anchors, splitting_mode, pc, lines, sections>>
    /\ UNCHANGED otherVars

\* lines 121-125, 130
FenceOpen ==
    /\ InLoop
    /\ IsFenceLine(stripped_line)
    /\ ~in_code_block
    /\ in_code_block' = TRUE
    /\ code_block_marker' = MarkerOf(stripped_line)
    /\ UNCHANGED headers
    /\ Continue

\* lines 121, 126-130
FenceClose ==
    /\ InLoop
    /\ IsFenceLine(stripped_line)
    /\ in_code_block
    /\ ClosesFence(stripped_line, code_block_marker)
    /\ in_code_block' = FALSE
    /\ code_block_marker' = None
    /\ UNCHANGED headers
    /\ Continue

\* lines 121, 126, 130: a fence line of the other marker inside an open fence
FenceOther ==
    /\ InLoop
    /\ IsFenceLine(stripped_line)
    /\ in_code_block
    /\ ~ClosesFence(stripped_line, code_block_marker)
    /\ UNCHANGED <<in_code_block, code_block_marker, headers>>
    /\ Continue

\* lines 133-134
SkipInCodeBlock ==
    /\ InLoop
    /\ ~IsFenceLine(stripped_line)
    /\ in_code_block
    /\ UNCHANGED <<in_code_block, code_block_marker, headers>>
    /\ Continue

\* lines 137-138
SkipIndented ==
    /\ InLoop
    /\ ~IsFenceLine(stripped_line)
    /\ ~in_code_block
    /\ IsIndentedCode(line)
    /\ UNCHANGED <<in_code_block, code_block_marker, headers>>
    /\ Continue

\* lines 141-157
AppendHeader ==
    /\ InLoop
    /\ ~IsFenceLine(stripped_line)
    /\ ~in_code_block
    /\ ~IsIndentedCode(line)
    /\ LET header_match == HeaderMatch(stripped_line)
           title == Strip(header_match.group2)
       IN  /\ header_match.matched
           /\ headers' = Append(headers,
                  [title |-> title,
                   level |-> Len(header_match.group1),
                   anchor_id |-> ResolveAnchor(title, section_anchors),
                   line_number |-> line_num + 1])
    /\ UNCHANGED <<in_code_block, code_block_marker>>
    /\ Continue

\* lines 141-142: no match
NotAHeader ==
    /\ InLoop
    /\ ~IsFenceLine(stripped_line)
    /\ ~in_code_block
    /\ ~IsIndentedCode(line)
    /\ ~HeaderMatch(stripped_line).matched
    /\ UNCHANGED <<in_code_block, code_block_marker, headers>>
    /\ Continue
-----------------------------------------------------------------------------
(* split_into_sections: what follows the return of parse_markdown_headers *)

DocumentTitle == <<"D", "o", "c", "u", "m", "e", "n", "t">>
DocumentAnchor == <<"d", "o", "c", "u", "m", "e", "n", "t">>

\* the mutant of DocumentSection: the content is trimmed
DocumentSectionTrimmed(content) ==
    [title |-> DocumentTitle,
     content |-> Strip(content),
     level |-> 1,
     anchor_id |-> DocumentAnchor,
     start_line |-> 1,
     end_line |-> Len(Split(content))]

\* lines 215-222
DocumentSection(content) ==
    [title |-> DocumentTitle,
     content |-> content,
     level |-> 1,
     anchor_id |-> DocumentAnchor,
     start_line |-> 1,
     end_line |-> Len(Split(content))]

\* the mutant of SectionContent: the content is not trimmed
SectionContentUntrimmed(ls, start_line, end_line) ==
    Join(PySlice(ls, start_line - 1, end_line))

\* lines 257-258 and 299-300
SectionContent(ls, start_line, end_line) ==
    Strip(Join(PySlice(ls, start_line - 1, end_line)))

\* the mutant of MakeSection: the section starts on the line before its header
MakeSectionShifted(ls, header, end_line) ==
    [title |-> header.title,
     content |-> SectionContent(ls, header.line_number, end_line),
     level |-> header.level,
     anchor_id |-> header.anchor_id,
     start_line |-> header.line_number - 1,
     end_line |-> end_line]

\* lines 260-267 and 302-309
MakeSection(ls, header, end_line) ==
    [title |-> header.title,
     content |-> SectionContent(ls, header.line_number, end_line),
     level |-> header.level,
     anchor_id |-> header.anchor_id,
     start_line |-> header.line_number,
     end_line |-> end_line]

\* the mutant of EndLineNonHierarchical: the section runs onto the next header's line
EndLineNonHierarchicalOffByOne(ls, hs, i) ==
    IF i < Len(hs) THEN hs[i + 1].line_number ELSE Len(ls)

\* lines 251-254, for the header at (1-based) position i
EndLineNonHierarchical(ls, hs, i) ==
    IF i < Len(hs) THEN hs[i + 1].line_number - 1 ELSE Len(ls)

\* lines 293-296: the loop over j, from position j on
RECURSIVE EndLineFrom(_, _, _, _)
EndLineFrom(ls, hs, i, j) ==
    IF j > Len(hs) THEN Len(ls)
    ELSE IF hs[j].level <= hs[i].level THEN hs[j].line_number - 1
    ELSE EndLineFrom(ls, hs, i, j + 1)

\* the mutant of EndLineHierarchical: only a strictly shallower header ends the section
RECURSIVE EndLineFromStrict(_, _, _, _)
EndLineFromStrict(ls, hs, i, j) ==
    IF j > Len(hs) THEN Len(ls)
    ELSE IF hs[j].level < hs[i].level THEN hs[j].line_number - 1
    ELSE EndLineFromStrict(ls, hs, i, j + 1)

EndLineHierarchicalStrict(ls, hs, i) == EndLineFromStrict(ls, hs, i, i + 1)

\* the mutant of EndLineHierarchical: the section ends at the next header of any level
EndLineHierarchicalFlat(ls, hs, i) ==
    IF i < Len(hs) THEN hs[i + 1].line_number - 1 ELSE Len(ls)

\* the mutant of EndLineHierarchical: the section ends before the header after the next
EndLineHierarchicalSkipOne(ls, hs, i) ==
    IF i + 1 < Len(hs) THEN hs[i + 2].line_number - 1 ELSE Len(ls)

\* lines 292-296, for the header at (1-based) position i
EndLineHierarchical(ls, hs, i) == EndLineFrom(ls, hs, i, i + 1)

\* lines 230-269
split_non_hierarchical(content, hs) ==
    LET ls == Split(content)
    IN  [i \in 1..Len(hs) |-> MakeSection(ls, hs[i], EndLineNonHierarchical(ls, hs, i))]

\* lines 271-311
split_hierarchical(content, hs) ==
    LET ls == Split(content)
    IN  [i \in 1..Len(hs) |-> MakeSection(ls, hs[i], EndLineHierarchical(ls, hs, i))]

\* parse_markdown_headers has returned (line 159)
Parsed == pc = "parse" /\ line_num = Len(lines)

Return ==
    /\ pc' = "done"
    /\ UNCHANGED <<markdown_content, section_anchors, splitting_mode, lines, line_num,
                   in_code_block, code_block_marker, headers>>
    /\ UNCHANGED otherVars

\* lines 213-222
ReturnDocument ==
    /\ Parsed
    /\ headers = <<>>
    /\ sections' = <<DocumentSection(markdown_content)>>
    /\ Return

\* lines 225-226
SplitHierarchical ==
    /\ Parsed
    /\ headers # <<>>
    /\ splitting_mode = HIERARCHICAL
    /\ sections' = split_hierarchical(markdown_content, headers)
    /\ Return

\* lines 227-228
SplitNonHierarchical ==
    /\ Parsed
    /\ headers # <<>>
    /\ splitting_mode # HIERARCHICAL
    /\ sections' = split_non_hierarchical(markdown_content, headers)
    /\ Return

Next ==
    \/ FenceOpen
    \/ FenceClose
    \/ FenceOther
    \/ SkipInCodeBlock
    \/ SkipIndented
    \/ AppendHeader
    \/ NotAHeader
    \/ ReturnDocument
    \/ SplitHierarchical
    \/ SplitNonHierarchical

Spec == Init /\ [][Next]_vars
-----------------------------------------------------------------------------
(* Vocabulary of the properties, stated on the input text itself *)

\* number of lines of the Markdown: one more than its line breaks
NumLines == Cardinality({k \in 1..Len(markdown_content) : markdown_content[k] = NL}) + 1

Done == pc = "done"

\* text of the lines a..b of the Markdown, line breaks included
RangeText(a, b) == Join(SubSeq(lines, a, b))

\* s has no leading and no trailing whitespace
IsTrimmed(s) == s = <<>> \/ (~IsSpace(s[1]) /\ ~IsSpace(s[Len(s)]))

\* s with its leading and trailing whitespace removed
Trimmed(s) ==
    IF \A k \in 1..Len(s) : IsSpace(s[k]) THEN <<>>
    ELSE LET a == CHOOSE k \in 1..Len(s) :
                      ~IsSpace(s[k]) /\ \A j \in 1..(k - 1) : IsSpace(s[j])
             b == CHOOSE k \in 1..Len(s) :
                      ~IsSpace(s[k]) /\ \A j \in (k + 1)..Len(s) : IsSpace(s[j])
         IN  SubSeq(s, a, b)

\* C1: in non-hierarchical mode section i starts at header i's line and ends on
\* the line before header i+1, or on the last line of the Markdown for the
\* last header, whatever the levels of the headers are
C1_NonHierarchicalSpan ==
    (Done /\ splitting_mode = NON_HIERARCHICAL /\ headers # <<>>) =>
        /\ Len(sections) = Len(headers)
        /\ \A i \in 1..Len(headers) :
            /\ sections[i].start_line = headers[i].line_number
            /\ sections[i].end_line =
                   IF i < Len(headers) THEN headers[i + 1].line_number - 1
                   ELSE NumLines

\* C1 witness: a non-hierarchical split of three headers, deeper then shallower
C1_Witness ==
    /\ Done
    /\ splitting_mode = NON_HIERARCHICAL
    /\ Len(headers) = 3
    /\ headers[1].level < headers[2].level
    /\ headers[3].level < headers[2].level
    /\ sections[1].end_line < sections[2].end_line

\* the later headers that end the hierarchical section of header i
Closers(i) == {j \in (i + 1)..Len(headers) : headers[j].level <= headers[i].level}

FirstOf(S) == CHOOSE j \in S : \A k \in S : j <= k

\* C2: in hierarchical mode section i starts at header i's line and ends on the
\* line before the first later header whose level is <= header i's level, or
\* on the last line of the Markdown when there is none
C2_HierarchicalSpan ==
    (Done /\ splitting_mode = HIERARCHICAL /\ headers # <<>>) =>
        /\ Len(sections) = Len(headers)
        /\ \A i \in 1..Len(headers) :
            /\ sections[i].start_line = headers[i].line_number
            /\ sections[i].end_line =
                   IF Closers(i) = {} THEN NumLines
                   ELSE headers[FirstOf(Closers(i))].line_number - 1

\* C2 witness: a header, a deeper header that does not end its section, then a
\* header of the same level that does
C2_Witness ==
    /\ Done
    /\ splitting_mode = HIERARCHICAL
    /\ Len(headers) = 3
    /\ headers[2].level > headers[1].level
    /\ headers[3].level = headers[1].level
    /\ sections[1].end_line = headers[3].line_number - 1
    /\ sections[3].end_line = NumLines

\* the header-bearing region: the text from the first header's line to the end
Region == RangeText(headers[1].line_number, NumLines)

RECURSIVE Concat(_)
Concat(ss) == IF ss = <<>> THEN <<>> ELSE Head(ss) \o Concat(Tail(ss))

Contents == [i \in 1..Len(sections) |-> sections[i].content]

\* C3 as claimed: in non-hierarchical mode the contents of the sections,
\* concatenated in order (directly, or with a line break between them),
\* reproduce the header-bearing region exactly
C3_ContentsReproduceRegion ==
    (Done /\ splitting_mode = NON_HIERARCHICAL /\ headers # <<>>) =>
        (Concat(Contents) = Region \/ Join(Contents) = Region)

\* C3 amended: in non-hierarchical mode the line ranges of the sections
\* partition the header-bearing region (each of its lines lies in exactly one
\* range, the ranges follow one another without gap), the texts of the ranges
\* joined by line breaks reproduce the region, and each content is the text of
\* its range trimmed of leading and trailing whitespace
C3_RangesPartitionRegion ==
    (Done /\ splitting_mode = NON_HIERARCHICAL /\ headers # <<>>) =>
        /\ \A l \in headers[1].line_number..NumLines :
               Cardinality({i \in 1..Len(sections) :
                   sections[i].start_line <= l /\ l <= sections[i].end_line}) = 1
        /\ \A i \in 1..(Len(sections) - 1) :
               sections[i + 1].start_line = sections[i].end_line + 1
        /\ Join([i \in 1..Len(sections) |->
                    RangeText(sections[i].start_line, sections[i].end_line)]) = Region
        /\ \A i \in 1..Len(sections) :
               sections[i].content =
                   Trimmed(RangeText(sections[i].start_line, sections[i].end_line))

\* C3 witness: a non-hierarchical split of two sections whose first range ends
\* in whitespace that its content has lost
C3_Witness ==
    /\ Done
    /\ splitting_mode = NON_HIERARCHICAL
    /\ Len(sections) >= 2
    /\ sections[1].content # RangeText(sections[1].start_line, sections[1].end_line)
    /\ Join(Contents) # Region

\* C4: in hierarchical mode, when header j follows header i, is deeper than
\* header i and comes before any later header of level <= header i's, the
\* trimmed content of section i contains the trimmed content of section j
C4_ParentContainsChild ==
    (Done /\ splitting_mode = HIERARCHICAL /\ headers # <<>>) =>
        \A i \in 1..Len(headers) : \A j \in (i + 1)..Len(headers) :
            (/\ headers[j].level > headers[i].level
             /\ \A k \in (i + 1)..j : headers[k].level > headers[i].level)
            => IsSubstring(Trimmed(sections[j].content), Trimmed(sections[i].content))

\* C4 witness: a header with a child and a grandchild, all three sections different
C4_Witness ==
    /\ Done
    /\ splitting_mode = HIERARCHICAL
    /\ Len(headers) = 3
    /\ headers[1].level < headers[2].level
    /\ headers[2].level < headers[3].level
    /\ sections[1].content # sections[2].content
    /\ sections[2].content # sections[3].content
    /\ IsSubstring(sections[3].content, sections[1].content)

\* C5: when no header is found, exactly one section is returned, in either
\* mode: title "Document", level 1, anchor "document", content the whole input
C5_DocumentFallback ==
    (Done /\ headers = <<>>) =>
        /\ Len(sections) = 1
        /\ sections[1].title = <<"D", "o", "c", "u", "m", "e", "n", "t">>
        /\ sections[1].level = 1
        /\ sections[1].anchor_id = <<"d", "o", "c", "u", "m", "e", "n", "t">>
        /\ sections[1].content = markdown_content

\* C5 witness: the fallback section of an input with text and outer whitespace
C5_Witness ==
    /\ Done
    /\ headers = <<>>
    /\ splitting_mode = HIERARCHICAL
    /\ ~IsTrimmed(markdown_content)
    /\ Trimmed(markdown_content) # <<>>
    /\ Len(sections) = 1

\* C6 as claimed: every returned content is trimmed, the content of the
\* "Document" section being the trimmed input
C6_EveryContentTrimmed ==
    Done =>
        /\ \A i \in 1..Len(sections) : IsTrimmed(sections[i].content)
        /\ headers = <<>> => sections[1].content = Trimmed(markdown_content)

\* C6 amended: the content of every section returned for a Markdown with at
\* least one header is trimmed; the "Document" section of a Markdown with no
\* header carries the input as it is, so it is trimmed only when the input is
C6_HeaderSectionsTrimmed ==
    Done =>
        /\ headers # <<>> =>
               \A i \in 1..Len(sections) :
                   /\ IsTrimmed(sections[i].content)
                   /\ sections[i].content =
                          Trimmed(RangeText(sections[i].start_line, sections[i].end_line))
        /\ headers = <<>> =>
               (IsTrimmed(sections[1].content) <=> IsTrimmed(markdown_content))

\* C6 witness: a section whose range ends in whitespace, returned trimmed
C6_Witness ==
    /\ Done
    /\ headers # <<>>
    /\ \E i \in 1..Len(sections) :
           /\ ~IsTrimmed(RangeText(sections[i].start_line, sections[i].end_line))
           /\ IsTrimmed(sections[i].content)
-----------------------------------------------------------------------------
(* Vocabulary of the properties of parse_markdown_headers *)

\* the fence a line shows once trimmed: three backticks, three tildes, or none
FenceKind(l) ==
    LET t == Trimmed(l)
    IN  IF Len(t) >= 3 /\ \A k \in 1..3 : t[k] = Backtick THEN "backtick"
        ELSE IF Len(t) >= 3 /\ \A k \in 1..3 : t[k] = "~" THEN "tilde"
        ELSE "none"

\* the fence left open by the lines 1..k: a fence line opens a fence when none
\* is open, closes the open fence when it is of its kind, and changes nothing
\* when it is of the other kind
RECURSIVE OpenFenceAfter(_)
OpenFenceAfter(k) ==
    IF k = 0 THEN "none"
    ELSE LET before == OpenFenceAfter(k - 1)
             kind == FenceKind(lines[k])
         IN  IF kind = "none" THEN before
             ELSE IF before = "none" THEN kind
             ELSE IF kind = before THEN "none"
             ELSE before

\* the line begins with four spaces or with a tab
BeginsIndented(l) ==
    \/ Len(l) >= 1 /\ l[1] = "\t"
    \/ Len(l) >= 4 /\ \A k \in 1..4 : l[k] = " "

\* s is k '#' characters, then whitespace, then text that is not all whitespace
HasHeaderShape(s, k) ==
    /\ Len(s) >= k + 2
    /\ \A j \in 1..k : s[j] = "#"
    /\ IsSpace(s[k + 1])
    /\ \E j \in (k + 2)..Len(s) : ~IsSpace(s[j])

ConsistsOfHeader(s) == \E k \in 1..6 : HasHeaderShape(s, k)

ReportedAt(i) == \E k \in 1..Len(headers) : headers[k].line_number = i

HeaderAt(i) == headers[CHOOSE k \in 1..Len(headers) : headers[k].line_number = i]

BacktickLinesBefore(i) == {k \in 1..(i - 1) : FenceKind(lines[k]) = "backtick"}

NoTildeLineBefore(i) == \A k \in 1..(i - 1) : FenceKind(lines[k]) # "tilde"

NotAHeaderTitle == <<"n", "o", "t", " ", "a", " ", "h", "e", "a", "d", "e", "r">>

\* C7: a line matching the header pattern is not reported when it lies inside
\* a triple-backtick fence (an odd number of backtick fence lines precede it),
\* and is reported outside any fence; "# not a header" is then reported with
\* level 1 and title "not a header"
C7_FenceAwareness ==
    \A i \in 1..line_num :
        (ConsistsOfHeader(Trimmed(lines[i])) /\ NoTildeLineBefore(i)) =>
            /\ Cardinality(BacktickLinesBefore(i)) % 2 = 1 => ~ReportedAt(i)
            /\ (Cardinality(BacktickLinesBefore(i)) % 2 = 0 /\ ~BeginsIndented(lines[i]))
                   => ReportedAt(i)
            /\ (ReportedAt(i) /\ lines[i] = H1Line) =>
                   (HeaderAt(i).level = 1 /\ HeaderAt(i).title = NotAHeaderTitle)

\* C7 witness: "# not a header" between an opening backtick fence line and its
\* closing line, all three consumed, and no header reported
C7_Witness ==
    /\ line_num = 3
    /\ FenceKind(lines[1]) = "backtick"
    /\ lines[2] = H1Line
    /\ FenceKind(lines[3]) = "backtick"
    /\ ~in_code_block
    /\ headers = <<>>

\* C8: after each line the fence state of parse_markdown_headers is the one the
\* fence lines seen so far determine: opened by a line starting, once trimmed,
\* with three backticks or three tildes, closed only by a later line starting
\* with the marker that opened it, left open by a line starting with the other
C8_FenceState ==
    /\ in_code_block = (OpenFenceAfter(line_num) # "none")
    /\ code_block_marker =
           CASE OpenFenceAfter(line_num) = "backtick" -> <<Backtick, Backtick, Backtick>>
             [] OpenFenceAfter(line_num) = "tilde" -> <<"~", "~", "~">>
             [] OTHER -> <<>>

\* C8 witness: a backtick fence is open and the line just consumed starts with tildes
C8_Witness ==
    /\ line_num >= 2
    /\ FenceKind(lines[line_num]) = "tilde"
    /\ \E k \in 1..(line_num - 1) : FenceKind(lines[k]) = "backtick"
    /\ in_code_block
    /\ code_block_marker = <<Backtick, Backtick, Backtick>>

\* C9: no reported header is a line that begins with four or more spaces or
\* with a tab
C9_IndentedNeverHeader ==
    \A k \in 1..Len(headers) : ~BeginsIndented(lines[headers[k].line_number])

\* C9 witness: a line that begins with a tab and otherwise matches the header
\* pattern has been consumed with no fence open, and is not reported
C9_Witness ==
    \E i \in 1..line_num :
        /\ lines[i] = TabLine
        /\ ConsistsOfHeader(Trimmed(lines[i]))
        /\ OpenFenceAfter(i - 1) = "none"
        /\ ~ReportedAt(i)

\* a consumed line outside code: no fence is open, it is no fence line and it
\* is not indented as code
OutsideCode(i) ==
    /\ OpenFenceAfter(i - 1) = "none"
    /\ FenceKind(lines[i]) = "none"
    /\ ~BeginsIndented(lines[i])

\* C10 as claimed: outside code a line is reported exactly when the line itself
\* is 1 to 6 '#', then whitespace, then non-empty text
C10_RawLineShape ==
    \A i \in 1..line_num :
        OutsideCode(i) => (ReportedAt(i) <=> ConsistsOfHeader(lines[i]))

\* C10 amended: outside code a line is reported exactly when, once trimmed of
\* leading and trailing whitespace, it is 1 to 6 '#', then whitespace, then
\* non-empty text; the level is the number of '#' (so it is in 1..6 and a line
\* with 7 or more leading '#' is not reported) and the title is the text after
\* the '#' trimmed
C10_TrimmedLineShape ==
    /\ \A i \in 1..line_num :
           OutsideCode(i) =>
               /\ ReportedAt(i) <=> ConsistsOfHeader(Trimmed(lines[i]))
               /\ ReportedAt(i) =>
                      LET t == Trimmed(lines[i])
                          h == HeaderAt(i)
                      IN  /\ HasHeaderShape(t, h.level)
                          /\ h.title = Trimmed(SubSeq(t, h.level + 1, Len(t)))
    /\ \A k \in 1..Len(headers) : headers[k].level \in 1..6

\* C10 witness: a line with a leading space reported with level 3 and title
\* "c", next to a consumed line of seven '#' outside code that is not reported
C10_Witness ==
    /\ \E i \in 1..line_num :
           /\ lines[i] = H3SpaceLine
           /\ ReportedAt(i)
           /\ HeaderAt(i).level = 3
           /\ HeaderAt(i).title = <<"c">>
    /\ \E i \in 1..line_num :
           /\ lines[i] = H7Line
           /\ OutsideCode(i)
           /\ ~ReportedAt(i)
-----------------------------------------------------------------------------
(* A call of parse_markdown_headers(markdown_content, section_anchors) with an
   anchor map as extract_section_anchors_from_html builds them: distinct keys,
   non-empty trimmed keys, non-empty values (line 97) *)

MaxParseLines == 2
MaxAnchors == 2

SetupText == <<"S", "e", "t", "u", "p">>
LowerSetupText == <<"s", "e", "t", "u", "p">>
SetupGuideText == <<"S", "e", "t", "u", "p", " ", "G", "u", "i", "d", "e">>
GuideText == <<"G", "u", "i", "d", "e">>
UpperSetupText == <<"S", "E", "T", "U", "P">>
QAText == <<"Q", "&", "A">>

Setup1Id == <<"s", "e", "t", "u", "p", "-", "1">>

\* the items an anchor map is made of: each key with its own anchor id
AnchorItems ==
    {<<SetupText, Setup1Id>>, <<LowerSetupText, <<"s", "2">>>>,
     <<SetupGuideText, <<"s", "g">>>>, <<GuideText, <<"g">>>>}

AnchorMaps ==
    {m \in UNION {[1..n -> AnchorItems] : n \in 0..MaxAnchors} :
        \A i \in 1..Len(m) : \A j \in 1..Len(m) : i # j => m[i][1] # m[j][1]}

ParseLineSet ==
    {<<"#", " ">> \o SetupText, <<"#", "#", " ">> \o SetupGuideText,
     <<"#", " ">> \o UpperSetupText, <<"#", " ">> \o QAText,
     BacktickLine, TildeLine, TabLine, TextLine}

ParseInputs == {Join(ls) : ls \in UNION {[1..n -> ParseLineSet] : n \in 0..MaxParseLines}}

\* lines 112-115: the call is at the head of the loop
InitParse ==
    /\ GitlabIdle /\ BlobIdle
    /\ SlugIdle /\ UrlIdle /\ ExtractIdle /\ CleanIdle /\ ConvertIdle
    /\ markdown_content \in ParseInputs
    /\ lines = Split(markdown_content)
    /\ section_anchors \in AnchorMaps
    /\ splitting_mode = HIERARCHICAL
    /\ pc = "parse"
    /\ line_num = 0
    /\ in_code_block = FALSE
    /\ code_block_marker = None
    /\ headers = <<>>
    /\ sections = <<>>

\* the loop of parse_markdown_headers (lines 117-157); the call has returned
\* headers (line 159) when no step is left
NextParse ==
    \/ FenceOpen
    \/ FenceClose
    \/ FenceOther
    \/ SkipInCodeBlock
    \/ SkipIndented
    \/ AppendHeader
    \/ NotAHeader

SpecParse == InitParse /\ [][NextParse]_vars

\* the two characters are the same letter, whatever their case
SameLetter(c, d) ==
    c = d \/ \E k \in 1..26 : {c, d} = {LowerCase[k], UpperCase[k]}

EqualIgnoringCase(a, b) ==
    Len(a) = Len(b) /\ \A i \in 1..Len(a) : SameLetter(a[i], b[i])

ContainsIgnoringCase(big, small) ==
    \E off \in 0..(Len(big) - Len(small)) :
        EqualIgnoringCase(SubSeq(big, off + 1, off + Len(small)), small)

Least(S) == CHOOSE i \in S : \A j \in S : i <= j

\* the anchor the four rules give to a title, by the first rule that applies
RuleAnchor(t, m) ==
    LET exact == {i \in 1..Len(m) : m[i][1] = t}
        same == {i \in 1..Len(m) : EqualIgnoringCase(m[i][1], t)}
        partial == {i \in 1..Len(m) :
                       ContainsIgnoringCase(m[i][1], t) \/ ContainsIgnoringCase(t, m[i][1])}
    IN  IF exact # {} THEN m[Least(exact)][2]
        ELSE IF same # {} THEN m[Least(same)][2]
        ELSE IF partial # {} THEN m[Least(partial)][2]
        ELSE generate_anchor_from_title(t)

SetupGuideSlug == <<"s", "e", "t", "u", "p", "-", "g", "u", "i", "d", "e">>

\* C12 as claimed: with the anchor map {"Setup": "setup-1"} a header titled
\* "Setup Guide" resolves to the slug "setup-guide"
C12_SetupGuideResolvesToSlug ==
    section_anchors = <<<<SetupText, Setup1Id>>>> =>
        \A k \in 1..Len(headers) :
            headers[k].title = SetupGuideText => headers[k].anchor_id = SetupGuideSlug

\* C12 amended: with the anchor map {"Setup": "setup-1"} a header titled
\* "Setup Guide" resolves to "setup-1", the key "Setup" being contained in the
\* title; it resolves to the slug "setup-guide" with the empty map
C12_SetupGuideResolvesToKey ==
    \A k \in 1..Len(headers) :
        headers[k].title = SetupGuideText =>
            /\ section_anchors = <<<<SetupText, Setup1Id>>>> =>
                   headers[k].anchor_id = Setup1Id
            /\ section_anchors = <<>> => headers[k].anchor_id = SetupGuideSlug

\* C12 witness: "Setup Guide" parsed with the map {"Setup": "setup-1"}
C12_Witness ==
    /\ section_anchors = <<<<SetupText, Setup1Id>>>>
    /\ \E k \in 1..Len(headers) :
           /\ headers[k].title = SetupGuideText
           /\ headers[k].anchor_id = Setup1Id
-----------------------------------------------------------------------------
(* A direct call of _generate_anchor_from_title(title) *)

MaxTitleLen == 4

TitleChars == {"a", "B", "1", "_", "-", " ", "\t", "&"}

\* the titles of at most max characters
TitlesUpTo(max) == UNION {[1..n -> TitleChars] : n \in 0..max}

\* the variables of split_into_sections / parse_markdown_headers
splitVars == <<markdown_content, section_anchors, splitting_mode, pc, lines, line_num,
               in_code_block, code_block_marker, headers, sections>>

\* split_into_sections is not called
SplitIdle ==
    /\ markdown_content = <<>>
    /\ section_anchors = <<>>
    /\ splitting_mode = HIERARCHICAL
    /\ pc = "idle"
    /\ lines = <<>>
    /\ line_num = 0
    /\ in_code_block = FALSE
    /\ code_block_marker = None
    /\ headers = <<>>
    /\ sections = <<>>

\* slug_anchor is <<>> until the call returns, then <<the anchor returned>>
InitSlug ==
    /\ GitlabIdle /\ BlobIdle
    /\ SplitIdle /\ UrlIdle /\ ExtractIdle /\ CleanIdle /\ ConvertIdle
    /\ slug_title \in TitlesUpTo(MaxTitleLen)
    /\ slug_anchor = <<>>

\* lines 187-189
GenerateAnchor ==
    /\ slug_anchor = <<>>
    /\ slug_anchor' = <<generate_anchor_from_title(slug_title)>>
    /\ UNCHANGED <<slug_title, url_base_url, url_anchor_id, url_result, html_headers,
                   clean_content, clean_result, clean_calls,
                   conv_html, conv_pc, main_content, output_lines, conv_result>>
    /\ UNCHANGED splitVars
    /\ UNCHANGED connectorVars

NextSlug == GenerateAnchor

SpecSlug == InitSlug /\ [][NextSlug]_vars

IsSeparator(c) == IsSpace(c) \/ c = "-"

\* the positions of the word characters of the title
WordPositions(t) == {i \in 1..Len(t) : IsWord(t[i])}

\* the slug read off the title in one pass: its word characters, lowercased,
\* in order, with one hyphen between two of them when whitespace or a hyphen
\* lies somewhere between them in the title
RECURSIVE SlugUpTo(_, _)
SlugUpTo(t, i) ==
    IF i = 0 THEN <<>>
    ELSE IF ~IsWord(t[i]) THEN SlugUpTo(t, i - 1)
    ELSE LET before == {j \in WordPositions(t) : j < i}
             last == CHOOSE j \in before : \A k \in before : k <= j
         IN  IF before # {} /\ \E j \in (last + 1)..(i - 1) : IsSeparator(t[j])
             THEN SlugUpTo(t, i - 1) \o <<"-", LowerChar(t[i])>>
             ELSE SlugUpTo(t, i - 1) \o <<LowerChar(t[i])>>

-----------------------------------------------------------------------------
(* A direct call of extract_section_anchors_from_html(html_content) *)

MaxHeadings == 2

\* html_headers is the parsed document as find_all sees it: its h1..h6
\* elements in document order, each with its level, its id attribute (absent,
\* empty or a value), its own text and whether it holds an a.headerlink child
HeadingLevels == {1, 2, 6}

HeadingTexts == {<<"X">>, <<" ", "X", " ">>, <<"Y">>, <<" ">>}

HeadingShapes ==
    [level : HeadingLevels, id_kind : {"absent", "empty", "value"},
     text : HeadingTexts, headerlink : BOOLEAN]

PositionDigits == <<"1", "2", "3", "4", "5", "6", "7", "8", "9">>

\* the id values are distinct, so an id names the heading it was read from
IdAt(i) == <<"h", PositionDigits[i]>>

MakeHeading(shape, i) ==
    [level |-> shape.level,
     has_id |-> shape.id_kind # "absent",
     id |-> IF shape.id_kind = "value" THEN IdAt(i) ELSE <<>>,
     text |-> shape.text,
     headerlink |-> shape.headerlink]

\* the document of the headings of the shapes f[1], ..., f[n]
HeadingDocument(f, n) == [i \in 1..n |-> MakeHeading(f[i], i)]

\* soup.find_all(f'h{level}', id=True): positions, in document order
RECURSIVE find_all(_, _, _)
find_all(soup, level, from) ==
    IF from > Len(soup) THEN <<>>
    ELSE IF soup[from].level = level /\ soup[from].has_id
         THEN <<from>> \o find_all(soup, level, from + 1)
         ELSE find_all(soup, level, from + 1)

\* d[k] = v on a dict: a present key keeps its place, a new key goes last
DictSet(d, k, v) ==
    IF \E i \in 1..Len(d) : d[i][1] = k
    THEN [i \in 1..Len(d) |-> IF d[i][1] = k THEN <<k, v>> ELSE d[i]]
    ELSE Append(d, <<k, v>>)

\* header.get_text().strip() once the headerlink child is decomposed
HeaderText(header) == Strip(header.text)

\* lines 86-98: the inner loop over the headers of one level
RECURSIVE ExtractHeaders(_, _, _)
ExtractHeaders(soup, found, d) ==
    IF found = <<>> THEN d
    ELSE LET header == soup[Head(found)]
             anchor_id == header.id
             header_text == HeaderText(header)
         IN  IF anchor_id = <<>> THEN ExtractHeaders(soup, Tail(found), d)
             ELSE IF header_text # <<>>
                  THEN ExtractHeaders(soup, Tail(found), DictSet(d, header_text, anchor_id))
                  ELSE ExtractHeaders(soup, Tail(found), d)

\* the positions of all headers with an id attribute, in document order
RECURSIVE WithId(_, _)
WithId(soup, from) ==
    IF from > Len(soup) THEN <<>>
    ELSE IF soup[from].has_id THEN <<from>> \o WithId(soup, from + 1)
    ELSE WithId(soup, from + 1)

\* the mutant of ExtractLevels: one pass over all headers in document order
ExtractDocumentOrder(soup, level, d) == ExtractHeaders(soup, WithId(soup, 1), d)

\* lines 84-98: for level in range(1, 7)
RECURSIVE ExtractLevels(_, _, _)
ExtractLevels(soup, level, d) ==
    IF level >= 7 THEN d
    ELSE ExtractLevels(soup, level + 1, ExtractHeaders(soup, find_all(soup, level, 1), d))

extract_section_anchors_from_html(soup) == ExtractLevels(soup, 1, <<>>)

InitExtract ==
    /\ GitlabIdle /\ BlobIdle
    /\ SlugIdle /\ UrlIdle /\ CleanIdle /\ ConvertIdle
    /\ \E n \in 0..MaxHeadings : \E f \in [1..n -> HeadingShapes] :
           html_headers = HeadingDocument(f, n)
    /\ markdown_content = <<>>
    /\ section_anchors = <<>>
    /\ splitting_mode = HIERARCHICAL
    /\ pc = "extract"
    /\ lines = <<>>
    /\ line_num = 0
    /\ in_code_block = FALSE
    /\ code_block_marker = None
    /\ headers = <<>>
    /\ sections = <<>>

\* lines 80-100
ExtractAnchors ==
    /\ pc = "extract"
    /\ section_anchors' = extract_section_anchors_from_html(html_headers)
    /\ pc' = "extracted"
    /\ UNCHANGED <<markdown_content, splitting_mode, lines, line_num, in_code_block,
                   code_block_marker, headers, sections>>
    /\ UNCHANGED otherVars

NextExtract == ExtractAnchors

SpecExtract == InitExtract /\ [][NextExtract]_vars

\* the headings that carry a non-empty id and show the text t
HeadingsShowing(t) ==
    {i \in 1..Len(html_headers) :
        /\ html_headers[i].has_id
        /\ html_headers[i].id # <<>>
        /\ Strip(html_headers[i].text) = t}

ShownTexts == {Strip(html_headers[i].text) : i \in 1..Len(html_headers)} \ {<<>>}

Greatest(S) == CHOOSE i \in S : \A j \in S : j <= i

\* C14 as stated: a text shown by several headings with an id is mapped to the
\* id of the one that comes last in document order, whatever their levels
C14_LastInDocumentOrder ==
    pc = "extracted" =>
        \A t \in ShownTexts :
            Cardinality(HeadingsShowing(t)) >= 2 =>
                AnchorGet(section_anchors, t) = html_headers[Greatest(HeadingsShowing(t))].id

\* C14 amended: a text shown by several headings with an id is mapped to the
\* id of the last one in document order among those of the deepest level
\* (the greatest n of hn) that show it
C14_LastOfDeepestLevel ==
    pc = "extracted" =>
        \A t \in ShownTexts :
            Cardinality(HeadingsShowing(t)) >= 2 =>
                LET deepest == {i \in HeadingsShowing(t) :
                                   \A j \in HeadingsShowing(t) :
                                       html_headers[j].level <= html_headers[i].level}
                IN  AnchorGet(section_anchors, t) = html_headers[Greatest(deepest)].id

\* C14 witness: an h2 and then an h1 both show "X"; the map keeps the h2's id
C14_Witness ==
    /\ pc = "extracted"
    /\ Len(html_headers) = 2
    /\ html_headers[1].level = 2 /\ html_headers[2].level = 1
    /\ HeadingsShowing(<<"X">>) = {1, 2}
    /\ section_anchors = <<<<<<"X">>, IdAt(1)>>>>
-----------------------------------------------------------------------------
(* A direct call of create_section_url(base_url, anchor_id) *)

MaxUrlLen == 3

UrlChars == {"x", "/", "#"}

\* the texts of at most max characters
UrlTextsUpTo(max) == UNION {[1..n -> UrlChars] : n \in 0..max}

\* the mutant of create_section_url: the fragment follows the base directly
create_section_url_bare(base_url, anchor_id) ==
    IF anchor_id = <<>> THEN base_url ELSE base_url \o <<"#">> \o anchor_id

\* lines 323-325
create_section_url(base_url, anchor_id) ==
    IF anchor_id = <<>> THEN base_url ELSE base_url \o <<"/", "#">> \o anchor_id

\* url_result is <<>> until the call returns, then <<the URL returned>>
InitUrl ==
    /\ GitlabIdle /\ BlobIdle
    /\ SplitIdle /\ SlugIdle /\ ExtractIdle /\ CleanIdle /\ ConvertIdle
    /\ url_base_url \in UrlTextsUpTo(MaxUrlLen)
    /\ url_anchor_id \in UrlTextsUpTo(MaxUrlLen)
    /\ url_result = <<>>

CreateSectionUrl ==
    /\ url_result = <<>>
    /\ url_result' = <<create_section_url(url_base_url, url_anchor_id)>>
    /\ UNCHANGED <<slug_title, slug_anchor, url_base_url, url_anchor_id, html_headers,
                   clean_content, clean_result, clean_calls,
                   conv_html, conv_pc, main_content, output_lines, conv_result>>
    /\ UNCHANGED splitVars
    /\ UNCHANGED connectorVars

NextUrl == CreateSectionUrl

SpecUrl == InitUrl /\ [][NextUrl]_vars

\* C15: the URL returned is base_url itself when anchor_id is empty, and
\* otherwise base_url, then "/#", then anchor_id
C15_SectionUrl ==
    url_result # <<>> =>
        LET url == url_result[1]
            n == Len(url_base_url)
        IN  IF Len(url_anchor_id) = 0
            THEN url = url_base_url
            ELSE /\ Len(url) = n + 2 + Len(url_anchor_id)
                 /\ SubSeq(url, 1, n) = url_base_url
                 /\ url[n + 1] = "/" /\ url[n + 2] = "#"
                 /\ SubSeq(url, n + 3, Len(url)) = url_anchor_id

\* C15 witness: base "x/x" and anchor "x#" give "x/x/#x#"
C15_Witness ==
    /\ url_base_url = <<"x", "/", "x">>
    /\ url_anchor_id = <<"x", "#">>
    /\ url_result = <<<<"x", "/", "x", "/", "#", "x", "#">>>>
-----------------------------------------------------------------------------
(* HTMLToMarkdownConverter.clean_markdown(content), called on a text and
   then again on what it returned *)

MaxCleanLines == 3
MaxCleanCalls == 2

\* the pilcrow character U+00B6, one character of the text
Pilcrow == "pilcrow"

ParaEntity == <<"&", "p", "a", "r", "a", ";">>

DateLine == <<"2", "0", "2", "4", "-", "0", "1", "-", "0", "1">>

CleanLineSet ==
    {<<>>, <<" ">>, <<Pilcrow>>, ParaEntity, <<" ", Pilcrow, ";">>,
     <<"1", "2">>, <<" ", "7", " ">>, DateLine, <<" ">> \o DateLine,
     <<",">>, <<" ", ",">>, <<",", " ">>, <<"a", " ">>, <<"a">>}

\* the texts of at most max lines
CleanInputsUpTo(max) ==
    {Join(ls) : ls \in UNION {[1..n -> CleanLineSet] : n \in 1..max}}

\* s.rstrip()
RStrip(s) == SubSeq(s, 1, Len(s) - TrailingSpaces(s))

\* re.match(r'^\s*[C]+\s*$', s) for a character class C
MatchesPadded(s, C) ==
    \E a \in 0..Len(s) : \E b \in (a + 1)..Len(s) :
        /\ \A i \in 1..a : IsSpace(s[i])
        /\ \A i \in (a + 1)..b : s[i] \in C
        /\ \A i \in (b + 1)..Len(s) : IsSpace(s[i])

\* line 442
IsSymbolLine(s) ==
    \/ s \in {<<Pilcrow>>, ParaEntity}
    \/ MatchesPadded(s, {Pilcrow, "&", ";"})

\* line 446: re.match(r'^\s*\d+\s*$', s)
IsNumberLine(s) == MatchesPadded(s, Digits)

\* the mutant of IsDateLine: no line is taken for a date
IsDateLineNever(s) == FALSE

\* line 450: re.match(r'^\d{4}-\d{2}-\d{2}$', s)
IsDateLine(s) ==
    /\ Len(s) = 10
    /\ \A i \in {1, 2, 3, 4, 6, 7, 9, 10} : s[i] \in Digits
    /\ s[5] = "-" /\ s[8] = "-"

\* the mutant of CleanLoop: the tests read the line before rstrip()
RECURSIVE CleanLoopUnstripped(_, _, _)
CleanLoopUnstripped(ls, cleaned_lines, prev_line_empty) ==
    IF ls = <<>> THEN cleaned_lines
    ELSE LET raw == Head(ls)
         IN  IF IsSymbolLine(raw) \/ IsNumberLine(raw) \/ IsDateLine(raw) \/ raw = <<",">>
             THEN CleanLoopUnstripped(Tail(ls), cleaned_lines, prev_line_empty)
             ELSE IF RStrip(raw) = <<>>
             THEN CleanLoopUnstripped(Tail(ls),
                      IF ~prev_line_empty THEN Append(cleaned_lines, <<>>)
                      ELSE cleaned_lines,
                      TRUE)
             ELSE CleanLoopUnstripped(Tail(ls), Append(cleaned_lines, RStrip(raw)), FALSE)

\* lines 438-467: the loop over the lines, with its two locals
RECURSIVE CleanLoop(_, _, _)
CleanLoop(ls, cleaned_lines, prev_line_empty) ==
    IF ls = <<>> THEN cleaned_lines
    ELSE LET ln == RStrip(Head(ls))
         IN  IF IsSymbolLine(ln) THEN CleanLoop(Tail(ls), cleaned_lines, prev_line_empty)
             ELSE IF IsNumberLine(ln) THEN CleanLoop(Tail(ls), cleaned_lines, prev_line_empty)
             ELSE IF IsDateLine(ln) THEN CleanLoop(Tail(ls), cleaned_lines, prev_line_empty)
             ELSE IF ln \in {<<",">>, <<>>}
             THEN IF ln = <<>>
                  THEN CleanLoop(Tail(ls),
                           IF ~prev_line_empty THEN Append(cleaned_lines, ln)
                           ELSE cleaned_lines,
                           TRUE)
                  ELSE CleanLoop(Tail(ls), cleaned_lines, prev_line_empty)
             ELSE IF ln = <<>>
             THEN CleanLoop(Tail(ls),
                      IF ~prev_line_empty THEN Append(cleaned_lines, ln) ELSE cleaned_lines,
                      TRUE)
             ELSE CleanLoop(Tail(ls), Append(cleaned_lines, ln), FALSE)

\* lines 470-471: while cleaned_lines and not cleaned_lines[-1]: pop()
RECURSIVE PopTrailingEmpty(_)
PopTrailingEmpty(ls) ==
    IF ls # <<>> /\ ls[Len(ls)] = <<>> THEN PopTrailingEmpty(SubSeq(ls, 1, Len(ls) - 1))
    ELSE ls

clean_markdown(content) ==
    Join(PopTrailingEmpty(CleanLoop(Split(content), <<>>, FALSE))) \o <<NL>>

\* clean_result holds what the calls made so far returned, in order
InitClean ==
    /\ GitlabIdle /\ BlobIdle
    /\ SplitIdle /\ SlugIdle /\ UrlIdle /\ ExtractIdle /\ ConvertIdle
    /\ clean_content \in CleanInputsUpTo(MaxCleanLines)
    /\ clean_result = <<>>
    /\ clean_calls = 0

\* one call: the first on clean_content, each later one on the previous result
CleanMarkdown ==
    /\ clean_calls < MaxCleanCalls
    /\ LET content == IF clean_calls = 0 THEN clean_content ELSE clean_result[clean_calls]
       IN  clean_result' = Append(clean_result, clean_markdown(content))
    /\ clean_calls' = clean_calls + 1
    /\ UNCHANGED <<slug_title, slug_anchor, url_base_url, url_anchor_id, url_result,
                   html_headers, clean_content,
                   conv_html, conv_pc, main_content, output_lines, conv_result>>
    /\ UNCHANGED splitVars
    /\ UNCHANGED connectorVars

NextClean == CleanMarkdown

SpecClean == InitClean /\ [][NextClean]_vars

\* C16: cleaning an already cleaned text returns it unchanged
C16_CleanIdempotent ==
    \A k \in 2..Len(clean_result) : clean_result[k] = clean_result[k - 1]

\* C16 witness: the lines "12", "" and "a " were cleaned twice; the first call
\* dropped and trimmed, the second changed nothing
C16_Witness ==
    /\ clean_content = <<"1", "2", NL, NL, "a", " ">>
    /\ clean_calls = 2
    /\ clean_result = <<<<NL, "a", NL>>, <<NL, "a", NL>>>>

\* the lines of a text that ends with a newline
TextLines(s) == LET pieces == Split(s) IN SubSeq(pieces, 1, Len(pieces) - 1)

OnlyDigits(s) == s # <<>> /\ \A i \in 1..Len(s) : s[i] \in Digits

OnlyDate(s) ==
    /\ Len(s) = 10
    /\ \A i \in 1..10 : IF i \in {5, 8} THEN s[i] = "-" ELSE s[i] \in Digits

OnlyGlyphs(s) ==
    \/ s # <<>> /\ \A i \in 1..Len(s) : s[i] = Pilcrow
    \/ s = ParaEntity

\* C17: a cleaned text ends with exactly one newline, has no two consecutive
\* blank lines, and has no line that is only digits, only a YYYY-MM-DD date,
\* only a comma or only permalink glyphs
C17_CleanOutputShape ==
    \A k \in 1..Len(clean_result) :
        LET out == clean_result[k]
            ols == TextLines(out)
        IN  /\ out # <<>> /\ out[Len(out)] = NL
            /\ Len(out) >= 2 => out[Len(out) - 1] # NL
            /\ \A i \in 1..(Len(ols) - 1) :
                   ~(Strip(ols[i]) = <<>> /\ Strip(ols[i + 1]) = <<>>)
            /\ \A i \in 1..Len(ols) :
                   /\ ~OnlyDigits(Strip(ols[i]))
                   /\ ~OnlyGlyphs(Strip(ols[i]))
                   /\ ~OnlyDate(ols[i])
                   /\ ols[i] # <<",">>

\* C17 witness: a date line and a comma line were dropped around the kept
\* line "a"
C17_Witness ==
    /\ clean_content = DateLine \o <<NL, "a", NL, ",">>
    /\ clean_calls = 1
    /\ clean_result = <<<<"a", NL>>>>
-----------------------------------------------------------------------------
(* HTMLToMarkdownConverter.convert_html_to_markdown(html_content) *)

MaxTopNodes == 2

\* conv_html is the tree BeautifulSoup builds from html_content: the sequence
\* of its top-level nodes.  A node has a name ("#text" for a text node, whose
\* name is None), the tokens of its class attribute, its children and, for a
\* text node, its text.
TextNode(t) == [name |-> "#text", class |-> <<>>, children |-> <<>>, text |-> t]

Element(n, c, ch) == [name |-> n, class |-> c, children |-> ch, text |-> <<>>]

IsTextNode(node) == node.name = "#text"

MdContent ==
    <<"m", "d", "-", "c", "o", "n", "t", "e", "n", "t">>

MdContentInner ==
    <<"m", "d", "-", "c", "o", "n", "t", "e", "n", "t", "_", "_", "i", "n",
      "n", "e", "r">>

MdTypeset ==
    <<"m", "d", "-", "t", "y", "p", "e", "s", "e", "t">>

ArticleClass ==
    <<"m", "d", "-", "c", "o", "n", "t", "e", "n", "t", "_", "_", "i", "n",
      "n", "e", "r", " ", "m", "d", "-", "t", "y", "p", "e", "s", "e", "t">>

MdNav ==
    <<"m", "d", "-", "n", "a", "v">>

MdSidebar ==
    <<"m", "d", "-", "s", "i", "d", "e", "b", "a", "r">>

MdHeader ==
    <<"m", "d", "-", "h", "e", "a", "d", "e", "r">>

MdFooter ==
    <<"m", "d", "-", "f", "o", "o", "t", "e", "r">>

MdSearch ==
    <<"m", "d", "-", "s", "e", "a", "r", "c", "h">>

Headerlink ==
    <<"h", "e", "a", "d", "e", "r", "l", "i", "n", "k">>

MdContentButton ==
    <<"m", "d", "-", "c", "o", "n", "t", "e", "n", "t", "_", "_", "b", "u",
      "t", "t", "o", "n">>

Linenos ==
    <<"l", "i", "n", "e", "n", "o", "s">>

Linenodiv ==
    <<"l", "i", "n", "e", "n", "o", "d", "i", "v">>

MdSourceFile ==
    <<"m", "d", "-", "s", "o", "u", "r", "c", "e", "-", "f", "i", "l", "e">>

\* lines 84-86
SkipClasses ==
    {MdNav, MdSidebar, MdHeader, MdFooter, MdSearch, Headerlink, MdContentButton,
     Linenos, Linenodiv, MdSourceFile}

ErrorText ==
    <<"E", "r", "r", "o", "r", ":", " ", "C", "o", "u", "l", "d", " ", "n",
      "o", "t", " ", "e", "x", "t", "r", "a", "c", "t", " ", "c", "o", "n",
      "t", "e", "n", "t", " ", "f", "r", "o", "m", " ", "H", "T", "M", "L",
      ".">>

\* ' '.join(tokens)
RECURSIVE JoinSpace(_)
JoinSpace(tokens) ==
    IF tokens = <<>> THEN <<>>
    ELSE IF Len(tokens) = 1 THEN tokens[1]
    ELSE tokens[1] \o <<" ">> \o JoinSpace(Tail(tokens))

\* the class_ filter of find: a token equal to the wanted string, or the whole
\* attribute equal to it
HasClass(node, wanted) ==
    \/ \E i \in 1..Len(node.class) : node.class[i] = wanted
    \/ node.class # <<>> /\ JoinSpace(node.class) = wanted

\* the four searches of lines 50-58, and the two of lines 321-323
Matches(node, search) ==
    CASE search = "article" -> node.name = "article" /\ HasClass(node, ArticleClass)
      [] search = "div" -> node.name = "div" /\ HasClass(node, MdContent)
      [] search = "main" -> node.name = "main"
      [] search = "body" -> node.name = "body"
      [] search = "td.code" -> node.name = "td" /\ HasClass(node, <<"c", "o", "d", "e">>)
      [] search = "code" -> node.name = "code"

\* soup.find(...): the first match in document order, <<>> for None
RECURSIVE Find(_, _)
Find(nodes, search) ==
    IF nodes = <<>> THEN <<>>
    ELSE IF Matches(Head(nodes), search) THEN <<Head(nodes)>>
    ELSE LET inside == Find(Head(nodes).children, search)
         IN  IF inside # <<>> THEN inside ELSE Find(Tail(nodes), search)

\* the mutant of FindMainContent: the body is looked for first
FindBodyFirst(soup) ==
    IF Find(soup, "body") # <<>> THEN Find(soup, "body")
    ELSE IF Find(soup, "main") # <<>> THEN Find(soup, "main")
    ELSE IF Find(soup, "div") # <<>> THEN Find(soup, "div")
    ELSE Find(soup, "article")

\* lines 50-58; a Tag is always true, so "not main_content" means None
FindMainContent(soup) ==
    IF Find(soup, "article") # <<>> THEN Find(soup, "article")
    ELSE IF Find(soup, "div") # <<>> THEN Find(soup, "div")
    ELSE IF Find(soup, "main") # <<>> THEN Find(soup, "main")
    ELSE Find(soup, "body")

\* lines 82-89
HasSkipClass(element) ==
    /\ element.class # <<>>
    /\ \E skip_class \in SkipClasses : IsSubstring(skip_class, JoinSpace(element.class))

-----------------------------------------------------------------------------
(* HTMLToMarkdownConverter.process_code_block: the clean-up of the code text,
   lines 357-400 *)

\* the length of the run of characters of the class C that s starts with
RECURSIVE RunLength(_, _)
RunLength(s, C) ==
    IF s = <<>> \/ Head(s) \notin C THEN 0 ELSE 1 + RunLength(Tail(s), C)

\* s[n:] of Python for 0 <= n
DropFirst(s, n) == SubSeq(s, n + 1, Len(s))

\* the length of the match of \s*\d+\s+ at the start of s, 0 when there is none
LeadingNumberLength(s) ==
    LET a == RunLength(s, Whitespace)
        b == RunLength(DropFirst(s, a), Digits)
        c == RunLength(DropFirst(s, a + b), Whitespace)
    IN  IF b >= 1 /\ c >= 1 THEN a + b + c ELSE 0

\* the mutant of RemoveLeadingNumber: the line is left as it is
KeepLeadingNumber(s) == s

\* line 369: re.sub(r'^\s*\d+\s+', '', s)
RemoveLeadingNumber(s) == DropFirst(s, LeadingNumberLength(s))

\* lines 364-373: the first loop over the lines of the code text
RECURSIVE CodeFirstLoop(_)
CodeFirstLoop(ls) ==
    IF ls = <<>> THEN <<>>
    ELSE LET cleaned_line == RemoveLeadingNumber(Head(ls))
         IN  IF IsNumberLine(Head(ls)) THEN CodeFirstLoop(Tail(ls))
             ELSE IF IsNumberLine(cleaned_line) THEN CodeFirstLoop(Tail(ls))
             ELSE <<cleaned_line>> \o CodeFirstLoop(Tail(ls))

\* the length of the match of \s*\d+\s*\n at the start of s, 0 when there is
\* none: the last \s* gives back characters until a newline ends the match
NumberRunLength(s) ==
    LET a == RunLength(s, Whitespace)
        b == RunLength(DropFirst(s, a), Digits)
        c == RunLength(DropFirst(s, a + b), Whitespace)
        ends == {k \in 1..c : s[a + b + k] = NL}
    IN  IF b >= 1 /\ ends # {}
        THEN a + b + (CHOOSE k \in ends : \A j \in ends : j <= k)
        ELSE 0

\* line 378: re.sub(r'\n\s*\d+\s*\n', '\n', s)
RECURSIVE SubNumberRuns(_)
SubNumberRuns(s) ==
    IF s = <<>> THEN <<>>
    ELSE IF Head(s) = NL /\ NumberRunLength(Tail(s)) > 0
         THEN <<NL>> \o SubNumberRuns(DropFirst(Tail(s), NumberRunLength(Tail(s))))
         ELSE <<Head(s)>> \o SubNumberRuns(Tail(s))

\* line 379: re.sub(r'^\s*\d+\s*\n', '', s)
SubLeadingNumberRun(s) == DropFirst(s, NumberRunLength(s))

\* line 389: re.sub(r'^\d+([{\[])', r'\1', s)
RemoveNumberBeforeBracket(s) ==
    LET b == RunLength(s, Digits)
    IN  IF b >= 1 /\ b < Len(s) /\ s[b + 1] \in {"{", "["} THEN DropFirst(s, b) ELSE s

\* lines 384-390: the second loop
RECURSIVE CodeSecondLoop(_)
CodeSecondLoop(ls) ==
    IF ls = <<>> THEN <<>>
    ELSE IF ~IsNumberLine(Strip(Head(ls)))
         THEN <<RemoveNumberBeforeBracket(Head(ls))>> \o CodeSecondLoop(Tail(ls))
         ELSE CodeSecondLoop(Tail(ls))

\* lines 362-392 (html.unescape leaves a text without entities as it is)
CleanCode(code_content) ==
    LET first == Strip(Join(CodeFirstLoop(Split(code_content))))
        second == SubLeadingNumberRun(SubNumberRuns(first))
    IN  Strip(Join(CodeSecondLoop(Split(second))))
-----------------------------------------------------------------------------
(* HTMLToMarkdownConverter.process_code_block(element) *)

LanguagePrefix ==
    <<"l", "a", "n", "g", "u", "a", "g", "e", "-">>

\* s.replace(old, ''), for a non-empty old
RECURSIVE RemoveAll(_, _)
RemoveAll(s, old) ==
    IF s = <<>> THEN <<>>
    ELSE IF StartsWith(s, old) THEN RemoveAll(DropFirst(s, Len(old)), old)
    ELSE <<Head(s)>> \o RemoveAll(Tail(s), old)

\* lines 311-315
RECURSIVE LanguageOf(_)
LanguageOf(classes) ==
    IF classes = <<>> THEN <<>>
    ELSE IF StartsWith(Head(classes), LanguagePrefix)
         THEN RemoveAll(Head(classes), LanguagePrefix)
         ELSE LanguageOf(Tail(classes))

\* tag.get_text(): the texts of the node, in document order
RECURSIVE GetText(_)
RECURSIVE GetTextOfAll(_)
GetText(node) == IF IsTextNode(node) THEN node.text ELSE GetTextOfAll(node.children)

GetTextOfAll(nodes) ==
    IF nodes = <<>> THEN <<>> ELSE GetText(Head(nodes)) \o GetTextOfAll(Tail(nodes))

\* lines 334, 349: a class of the tag is linenos or linenodiv
IsLineNumberContainer(node) ==
    \E i \in 1..Len(node.class) : node.class[i] \in {Linenos, Linenodiv}

\* lines 329-341: the text of the first code element in document order that
\* has no line number container above it, <<>> when there is none; inside
\* says that a container was met on the way down
RECURSIVE FirstCodeText(_, _)
FirstCodeText(nodes, inside) ==
    IF nodes = <<>> THEN <<>>
    ELSE LET node == Head(nodes)
         IN  IF node.name = "code" /\ ~inside THEN <<GetText(node)>>
             ELSE LET below == FirstCodeText(node.children,
                                             inside \/ IsLineNumberContainer(node))
                  IN  IF below # <<>> THEN below ELSE FirstCodeText(Tail(nodes), inside)

\* lines 346-356: the texts that have no line number container above them
RECURSIVE AllTextOutside(_, _)
AllTextOutside(nodes, inside) ==
    IF nodes = <<>> THEN <<>>
    ELSE LET node == Head(nodes)
             here == IF IsTextNode(node)
                     THEN IF inside THEN <<>> ELSE node.text
                     ELSE AllTextOutside(node.children,
                                         inside \/ IsLineNumberContainer(node))
         IN  here \o AllTextOutside(Tail(nodes), inside)

\* lines 317-357: the code text of the element
CodeContentOf(element) ==
    LET code_cell == Find(element.children, "td.code")
    IN  IF code_cell # <<>>
        THEN LET code_element == Find(code_cell[1].children, "code")
             IN  IF code_element # <<>> THEN GetText(code_element[1])
                 ELSE GetText(code_cell[1])
        ELSE LET found == FirstCodeText(element.children, IsLineNumberContainer(element))
             IN  IF found # <<>> /\ found[1] # <<>> THEN found[1]
                 ELSE AllTextOutside(element.children, IsLineNumberContainer(element))

\* lines 305-400
process_code_block(element, out) ==
    LET language == LanguageOf(element.class)
        code_content == CleanCode(CodeContentOf(element))
    IN  IF code_content # <<>>
        THEN out \o <<BacktickFence \o language, code_content, BacktickFence, <<>>>>
        ELSE out
-----------------------------------------------------------------------------
(* HTMLToMarkdownConverter.process_element and process_link *)

\* an a element: besides the fields of every element, its href and name
\* attributes, <<>> when absent
Link(c, href, anchor, ch) ==
    [name |-> "a", class |-> c, children |-> ch, text |-> <<>>,
     href |-> href, anchor |-> anchor]

\* link_element.get_text()
RECURSIVE LinkText(_)
LinkText(nodes) ==
    IF nodes = <<>> THEN <<>>
    ELSE (IF IsTextNode(Head(nodes)) THEN Head(nodes).text
          ELSE LinkText(Head(nodes).children)) \o LinkText(Tail(nodes))

\* lines 411-430: the string process_link returns
process_link(link_element) ==
    LET href == link_element.href
        text == LinkText(link_element.children)
    IN  IF (\E i \in 1..Len(link_element.class) : link_element.class[i] = Headerlink)
           \/ Strip(text) = <<>>
        THEN <<>>
        ELSE IF href # <<>> THEN <<"[">> \o text \o <<"]", "(">> \o href \o <<")">>
        ELSE IF link_element.anchor # <<>>
        THEN <<"<", "a", " ", "n", "a", "m", "e", "=", "\"">> \o link_element.anchor
                 \o <<"\"", ">", "<", "/", "a", ">">>
        ELSE text

\* what the call process_element(element) returns: the string of lines
\* 202-203 for an a element, None (<<>>) on the paths modelled otherwise
ProcessElementReturns(element) ==
    IF ~IsTextNode(element) /\ ~HasSkipClass(element) /\ element.name = "a"
    THEN process_link(element)
    ELSE <<>>

Highlight == <<"h", "i", "g", "h", "l", "i", "g", "h", "t">>

Highlighttable == <<"h", "i", "g", "h", "l", "i", "g", "h", "t", "t", "a", "b", "l", "e">>

\* the tokens of a class attribute, as element.get('class', []) lists them
Tokens(classes) == {classes[i] : i \in 1..Len(classes)}

\* process_element on the nodes the documents below are made of: text nodes,
\* elements with a skipped class, aside, the three kinds of code block,
\* inline a (its string is returned to the loop of lines 213-214, which drops
\* it) and container elements
RECURSIVE process_element(_, _)
RECURSIVE ProcessChildren(_, _)
process_element(element, out) ==
    IF IsTextNode(element)
    THEN IF Strip(element.text) # <<>> THEN Append(out, Strip(element.text)) ELSE out
    ELSE IF HasSkipClass(element) THEN out
    ELSE IF element.name = "aside" THEN out
    ELSE IF element.name = "pre" THEN process_code_block(element, out)
    ELSE IF element.name = "div" /\ Highlight \in Tokens(element.class)
         THEN process_code_block(element, out)
    ELSE IF element.name = "table" /\ Highlighttable \in Tokens(element.class)
         THEN process_code_block(element, out)
    ELSE IF element.name = "a" THEN out
    ELSE ProcessChildren(element.children, out)

\* lines 213-214
ProcessChildren(children, out) ==
    IF children = <<>> THEN out
    ELSE ProcessChildren(Tail(children), process_element(Head(children), out))

\* the elements the documents are made of, each holding a text of its own
ArticleNode(ch) == Element("article", <<MdContentInner, MdTypeset>>, <<TextNode(<<"A">>)>> \o ch)
ArticleSwappedNode(ch) == Element("article", <<MdTypeset, MdContentInner>>, <<TextNode(<<"R">>)>> \o ch)
DivNode(ch) == Element("div", <<MdContent>>, <<TextNode(<<"D">>)>> \o ch)
MainNode(ch) == Element("main", <<>>, <<TextNode(<<"M">>)>> \o ch)
BodyNode(ch) == Element("body", <<>>, <<TextNode(<<" ", "B">>)>> \o ch)

Wrappers == {"article", "swapped", "div", "main", "body"}

Wrap(kind, ch) ==
    CASE kind = "article" -> ArticleNode(ch)
      [] kind = "swapped" -> ArticleSwappedNode(ch)
      [] kind = "div" -> DivNode(ch)
      [] kind = "main" -> MainNode(ch)
      [] kind = "body" -> BodyNode(ch)

\* an element alone, or holding one other element
Blocks ==
    {Wrap(k, <<>>) : k \in Wrappers}
        \cup {Wrap(k[1], <<Wrap(k[2], <<>>)>>) : k \in Wrappers \X Wrappers}

\* the documents of at most max top-level elements
HtmlDocumentsUpTo(max) == UNION {[1..n -> Blocks] : n \in 0..max}

InitConvert ==
    /\ GitlabIdle /\ BlobIdle
    /\ SplitIdle /\ SlugIdle /\ UrlIdle /\ ExtractIdle /\ CleanIdle
    /\ conv_html \in HtmlDocumentsUpTo(MaxTopNodes)
    /\ conv_pc = "find"
    /\ main_content = <<>>
    /\ output_lines = <<>>
    /\ conv_result = <<>>

convIdleVars == <<slug_title, slug_anchor, url_base_url, url_anchor_id, url_result,
                  html_headers, clean_content, clean_result, clean_calls>>

\* lines 47-58; main_content is <<>> for None and <<the tag>> otherwise
FindContent ==
    /\ conv_pc = "find"
    /\ main_content' = FindMainContent(conv_html)
    /\ conv_pc' = "check"
    /\ UNCHANGED <<conv_html, output_lines, conv_result>>
    /\ UNCHANGED convIdleVars
    /\ UNCHANGED splitVars
    /\ UNCHANGED connectorVars

\* lines 60-61
ReturnError ==
    /\ conv_pc = "check"
    /\ main_content = <<>>
    /\ conv_result' = <<ErrorText>>
    /\ conv_pc' = "done"
    /\ UNCHANGED <<conv_html, main_content, output_lines>>
    /\ UNCHANGED convIdleVars
    /\ UNCHANGED splitVars
    /\ UNCHANGED connectorVars

\* the mutant of ResetOutputLines: the lines of earlier calls are kept
KeepOutputLines == output_lines

\* line 63: self.output_lines = []
ResetOutputLines == <<>>

\* lines 63-64
ProcessContent ==
    /\ conv_pc = "check"
    /\ main_content # <<>>
    /\ output_lines' = process_element(main_content[1], ResetOutputLines)
    /\ conv_pc' = "processed"
    /\ UNCHANGED <<conv_html, main_content, conv_result>>
    /\ UNCHANGED convIdleVars
    /\ UNCHANGED splitVars
    /\ UNCHANGED connectorVars

\* lines 67-70
ReturnMarkdown ==
    /\ conv_pc = "processed"
    /\ conv_result' = <<clean_markdown(Join(output_lines))>>
    /\ conv_pc' = "done"
    /\ UNCHANGED <<conv_html, main_content, output_lines>>
    /\ UNCHANGED convIdleVars
    /\ UNCHANGED splitVars
    /\ UNCHANGED connectorVars

NextConvert == FindContent \/ ReturnError \/ ProcessContent \/ ReturnMarkdown

SpecConvert == InitConvert /\ [][NextConvert]_vars
\* the places of the nodes of a tree: a place is the sequence of child
\* numbers that leads to the node
RECURSIVE PlacesIn(_)
PlacesIn(nodes) ==
    UNION {{<<i>>} \cup {<<i>> \o q : q \in PlacesIn(nodes[i].children)} :
           i \in 1..Len(nodes)}

RECURSIVE NodeAt(_, _)
NodeAt(nodes, place) ==
    IF Len(place) = 1 THEN nodes[place[1]]
    ELSE NodeAt(nodes[place[1]].children, Tail(place))

\* document order: an element comes before what it contains and before what
\* follows it
ComesBefore(p, q) ==
    \/ Len(p) < Len(q) /\ SubSeq(q, 1, Len(p)) = p
    \/ \E k \in 1..Min(Len(p), Len(q)) :
           /\ SubSeq(p, 1, k - 1) = SubSeq(q, 1, k - 1)
           /\ p[k] < q[k]

RegionOrder == <<"article", "div", "main", "body">>

Existing(search) ==
    {p \in PlacesIn(conv_html) : Matches(NodeAt(conv_html, p), search)}

\* C18: the content region is the first existing one of the article with the
\* content class, the div with class md-content, the main element and the
\* body element; when none exists the call returns the error string and no
\* Markdown is emitted
C18_ContentRegion ==
    conv_pc \in {"check", "processed", "done"} =>
        LET present == {k \in 1..4 : Existing(RegionOrder[k]) # {}}
        IN  IF present = {}
            THEN /\ main_content = <<>>
                 /\ conv_pc # "processed"
                 /\ output_lines = <<>>
                 /\ conv_pc = "done" => conv_result = <<ErrorText>>
            ELSE LET k == CHOOSE k \in present : \A j \in present : k <= j
                     found == Existing(RegionOrder[k])
                     p == CHOOSE p \in found : \A q \in found \ {p} : ComesBefore(p, q)
                 IN  /\ main_content = <<NodeAt(conv_html, p)>>
                     /\ conv_pc = "done" => conv_result # <<ErrorText>>

\* C18 witness: a body holding a main, followed by a div.md-content; the div
\* is the region although body and main exist and come first
C18_Witness ==
    /\ conv_html = <<Wrap("body", <<Wrap("main", <<>>)>>), Wrap("div", <<>>)>>
    /\ conv_pc = "done"
    /\ main_content = <<Wrap("div", <<>>)>>
    /\ conv_result = <<<<"D", NL>>>>

\* a document without any of the four regions returned the error string
C18_ErrorReturned ==
    /\ conv_html = <<Wrap("swapped", <<>>)>>
    /\ conv_pc = "done"
    /\ conv_result = <<ErrorText>>
-----------------------------------------------------------------------------
(* convert_html_to_markdown when process_element raises *)

\* lines 63-64 with an exception raised somewhere in the walk of
\* process_element, for instance RecursionError on elements nested deeper
\* than the interpreter's recursion limit: lines 45-71 hold no try, so the
\* exception leaves convert_html_to_markdown and no value is returned
ProcessContentRaises ==
    /\ conv_pc = "check"
    /\ main_content # <<>>
    /\ LET emitted == process_element(main_content[1], <<>>)
       IN  \E k \in 0..Len(emitted) : output_lines' = SubSeq(emitted, 1, k)
    /\ conv_pc' = "raised"
    /\ UNCHANGED <<conv_html, main_content, conv_result>>
    /\ UNCHANGED convIdleVars
    /\ UNCHANGED splitVars
    /\ UNCHANGED connectorVars

NextConvertFault == NextConvert \/ ProcessContentRaises

SpecConvertFault == InitConvert /\ [][NextConvertFault]_vars

\* C19: convert_html_to_markdown never propagates an exception to its caller:
\* no call ends with the exception of a failed walk of the content tree
\* leaving the function (it would return the original HTML instead)
C19_NeverPropagates == conv_pc # "raised"

-----------------------------------------------------------------------------
(* split_into_sections(markdown_content, html_content) with a non-empty
   html_content, whose anchor extraction may raise *)

\* the soup of html_content: no heading, or one h1 with an id
SplitHtmlDocuments ==
    {<<>>,
     <<MakeHeading([level |-> 1, id_kind |-> "value", text |-> <<"a">>,
                    headerlink |-> TRUE], 1)>>}

InitSplitFault ==
    /\ GitlabIdle /\ BlobIdle
    /\ SlugIdle /\ UrlIdle /\ CleanIdle /\ ConvertIdle
    /\ html_headers \in SplitHtmlDocuments
    /\ markdown_content \in Inputs
    /\ lines = Split(markdown_content)
    /\ section_anchors = <<>>
    /\ splitting_mode \in {HIERARCHICAL, NON_HIERARCHICAL}
    /\ pc = "anchors"
    /\ line_num = 0
    /\ in_code_block = FALSE
    /\ code_block_marker = None
    /\ headers = <<>>
    /\ sections = <<>>

\* lines 206-208
ExtractForSplit ==
    /\ pc = "anchors"
    /\ section_anchors' = extract_section_anchors_from_html(html_headers)
    /\ pc' = "parse"
    /\ UNCHANGED <<markdown_content, splitting_mode, lines, line_num, in_code_block,
                   code_block_marker, headers, sections>>
    /\ UNCHANGED otherVars

\* line 208 when BeautifulSoup (line 80) raises on html_content, as
\* ParserRejectedMarkup on markup html.parser rejects: lines 191-228 hold no
\* try, so the exception leaves split_into_sections and nothing is returned
ExtractForSplitRaises ==
    /\ pc = "anchors"
    /\ pc' = "raised"
    /\ UNCHANGED <<markdown_content, section_anchors, splitting_mode, lines, line_num,
                   in_code_block, code_block_marker, headers, sections>>
    /\ UNCHANGED otherVars

NextSplitFault == ExtractForSplit \/ ExtractForSplitRaises \/ Next

SpecSplitFault == InitSplitFault /\ [][NextSplitFault]_vars

\* C20: split_into_sections never propagates an exception to its caller: no
\* call ends with the exception of a failed anchor extraction leaving the
\* function (it would return the single whole-document section instead)
C20_NeverPropagates == pc # "raised"

-----------------------------------------------------------------------------
(* Calls of convert_html_to_markdown made one after another on one
   HTMLToMarkdownConverter *)

\* the documents of the calls: empty, or one top-level element
SeqDocuments == {<<>>} \cup {<<b>> : b \in Blocks}

\* the next call on the same instance: its locals are new, the instance
\* attribute output_lines is what the call before left
CallAgain ==
    /\ conv_pc = "done"
    /\ conv_html' \in SeqDocuments
    /\ conv_pc' = "find"
    /\ main_content' = <<>>
    /\ conv_result' = <<>>
    /\ UNCHANGED output_lines
    /\ UNCHANGED convIdleVars
    /\ UNCHANGED splitVars
    /\ UNCHANGED connectorVars

InitConvertSeq ==
    /\ GitlabIdle /\ BlobIdle
    /\ SplitIdle /\ SlugIdle /\ UrlIdle /\ ExtractIdle /\ CleanIdle
    /\ conv_html \in SeqDocuments
    /\ conv_pc = "find"
    /\ main_content = <<>>
    /\ output_lines = <<>>
    /\ conv_result = <<>>

NextConvertSeq == NextConvert \/ CallAgain

SpecConvertSeq == InitConvertSeq /\ [][NextConvertSeq]_vars

\* what a call on a fresh instance returns for the document soup
FreshResult(soup) ==
    LET region == FindMainContent(soup)
    IN  IF region = <<>> THEN ErrorText
        ELSE clean_markdown(Join(process_element(region[1], <<>>)))

\* C21: whatever the earlier calls on the instance were and left in
\* output_lines, a call returns what a fresh instance returns for its HTML
C21_NoStateAcrossCalls ==
    conv_pc = "done" => conv_result = <<FreshResult(conv_html)>>

\* C21 witness: a call that returned the error string while output_lines
\* still held the line of an earlier call
C21_Witness ==
    /\ conv_pc = "done"
    /\ conv_html = <<Wrap("swapped", <<>>)>>
    /\ conv_result = <<ErrorText>>
    /\ output_lines = <<<<"D">>>>

\* a call that emitted Markdown after a call that had left a line
C21_LeftoverBeforeProcessing ==
    /\ conv_pc = "check"
    /\ conv_html = <<Wrap("main", <<>>)>>
    /\ output_lines = <<<<"D">>>>
-----------------------------------------------------------------------------
(* The code blocks a direct call of process_code_block is checked on *)

MaxCodeLen == 5

CodeChars == {"1", " ", NL, "x", "{"}

\* "1 import os\n2 print(1)"
ExampleCode ==
    <<"1", " ", "i", "m", "p", "o", "r", "t", " ", "o", "s", NL,
      "2", " ", "p", "r", "i", "n", "t", "(", "1", ")">>

\* the code texts of at most max characters, and the example
CodeTextsUpTo(max) == UNION {[1..n -> CodeChars] : n \in 0..max} \cup {ExampleCode}

LanguagePy == LanguagePrefix \o <<"p", "y">>

CodeShapes == {"pre", "language", "cells", "span"}

\* a code block holding the code text t: <pre><code>, the same with a
\* language class, a highlight div with a line number cell and a code cell,
\* and a <pre> without <code> whose line numbers sit in a span
CodeBlock(shape, t) ==
    CASE shape = "pre" ->
             Element("pre", <<>>, <<Element("code", <<>>, <<TextNode(t)>>)>>)
      [] shape = "language" ->
             Element("pre", <<LanguagePy>>, <<Element("code", <<>>, <<TextNode(t)>>)>>)
      [] shape = "cells" ->
             Element("div", <<Highlight>>,
                 <<Element("td", <<Linenos>>,
                       <<Element("code", <<>>, <<TextNode(<<"x", "1">>)>>)>>),
                   Element("td", <<<<"c", "o", "d", "e">>>>,
                       <<Element("code", <<>>, <<TextNode(t)>>)>>)>>)
      [] shape = "span" ->
             Element("pre", <<>>,
                 <<Element("span", <<Linenos>>, <<TextNode(<<"x", "7">>)>>),
                   TextNode(t)>>)

\* a direct call process_code_block(conv_html[1]) on a new converter
InitCode ==
    /\ GitlabIdle /\ BlobIdle
    /\ SplitIdle /\ SlugIdle /\ UrlIdle /\ ExtractIdle /\ CleanIdle
    /\ \E shape \in CodeShapes : \E t \in CodeTextsUpTo(MaxCodeLen) :
           conv_html = <<CodeBlock(shape, t)>>
    /\ conv_pc = "code"
    /\ main_content = <<>>
    /\ output_lines = <<>>
    /\ conv_result = <<>>

ProcessCodeBlock ==
    /\ conv_pc = "code"
    /\ output_lines' = process_code_block(conv_html[1], output_lines)
    /\ conv_pc' = "coded"
    /\ UNCHANGED <<conv_html, main_content, conv_result>>
    /\ UNCHANGED convIdleVars
    /\ UNCHANGED splitVars
    /\ UNCHANGED connectorVars

NextCode == ProcessCodeBlock

SpecCode == InitCode /\ [][NextCode]_vars

\* the code text the block of conv_html was built from
CodeTextOf(block) ==
    IF block.name = "div" THEN block.children[2].children[1].children[1].text
    ELSE IF block.children[1].name = "code" THEN block.children[1].children[1].text
    ELSE block.children[2].text

\* s without its leading line-number token: optional whitespace, digits and
\* the whitespace after them
WithoutLineNumber(s) ==
    LET ends == {k \in 1..Len(s) :
                    /\ \E a \in 0..k : \E b \in (a + 1)..(k - 1) :
                           /\ \A i \in 1..a : IsSpace(s[i])
                           /\ \A i \in (a + 1)..b : s[i] \in Digits
                           /\ \A i \in (b + 1)..k : IsSpace(s[i])
                    /\ k < Len(s) => ~IsSpace(s[k + 1])}
    IN  IF ends = {} THEN s ELSE SubSeq(s, 1 + CHOOSE k \in ends : TRUE, Len(s))

\* the emitted line out is the source line src without its line number, up to
\* whitespace at its ends and a number stuck to an opening bracket
ComesFrom(out, src) ==
    LET bare == Strip(WithoutLineNumber(src))
    IN  Strip(out) = bare \/ Strip(out) = RemoveNumberBeforeBracket(bare)

\* the lines outs come, in order, from lines among srcs
RECURSIVE ComeInOrderFrom(_, _)
ComeInOrderFrom(outs, srcs) ==
    IF outs = <<>> THEN TRUE
    ELSE IF srcs = <<>> THEN FALSE
    ELSE \/ ComesFrom(Head(outs), Head(srcs)) /\ ComeInOrderFrom(Tail(outs), Tail(srcs))
         \/ ComeInOrderFrom(outs, Tail(srcs))

\* C22: an emitted code block is an opening fence, the code, a closing fence
\* and a blank line; each line of the code is a line of the code text with
\* its leading line-number token removed, none is made only of digits, and
\* the text "1 import os\n2 print(1)" gives "import os" and "print(1)"
C22_CodeLineNumbers ==
    conv_pc = "coded" /\ output_lines # <<>> =>
        LET code == Split(output_lines[2])
            source == Split(CodeTextOf(conv_html[1]))
        IN  /\ Len(output_lines) = 4
            /\ StartsWith(output_lines[1], BacktickFence)
            /\ output_lines[3] = BacktickFence /\ output_lines[4] = <<>>
            /\ \A i \in 1..Len(code) : ~OnlyDigits(Strip(code[i]))
            /\ ComeInOrderFrom(code, source)
            /\ CodeTextOf(conv_html[1]) = ExampleCode =>
                   code = <<<<"i", "m", "p", "o", "r", "t", " ", "o", "s">>,
                            <<"p", "r", "i", "n", "t", "(", "1", ")">>>>

\* C22 witness: the block <pre><code>1 import os\n2 print(1)</code></pre>
\* was emitted
C22_Witness ==
    /\ conv_pc = "coded"
    /\ conv_html = <<CodeBlock("pre", ExampleCode)>>
    /\ Len(output_lines) = 4
    /\ Split(output_lines[2]) = <<<<"i", "m", "p", "o", "r", "t", " ", "o", "s">>,
                                  <<"p", "r", "i", "n", "t", "(", "1", ")">>>>
-----------------------------------------------------------------------------
(* convert_html_to_markdown on documents that hold a link *)

LinkTexts == {<<"t">>, <<" ">>, <<>>}

LinkHrefs == {<<"u">>, <<"#", "s">>, <<>>}

\* the a elements of the documents
Links ==
    {Link(c, href, anchor, IF t = <<>> THEN <<>> ELSE <<TextNode(t)>>) :
        c \in {<<>>, <<Headerlink>>}, href \in LinkHrefs, anchor \in {<<>>, <<"n">>},
        t \in LinkTexts}

\* a body that holds the link itself, in a div, or in a div of a div; and
\* the links alone, without a content container around them
LinkDocuments ==
    {<<BodyNode(<<l>>)>> : l \in Links}
        \cup {<<l>> : l \in Links}
        \cup {<<BodyNode(<<Element("div", <<>>, <<l>>)>>)>> : l \in Links}
        \cup {<<BodyNode(<<Element("div", <<>>, <<Element("div", <<>>, <<l>>)>>)>>)>> :
                 l \in Links}

InitLinks ==
    /\ GitlabIdle /\ BlobIdle
    /\ SplitIdle /\ SlugIdle /\ UrlIdle /\ ExtractIdle /\ CleanIdle
    /\ conv_html \in LinkDocuments
    /\ conv_pc = "find"
    /\ main_content = <<>>
    /\ output_lines = <<>>
    /\ conv_result = <<>>

SpecLinks == InitLinks /\ [][NextConvert]_vars

\* the a elements of the document
LinksOf(soup) ==
    {NodeAt(soup, p) : p \in {q \in PlacesIn(soup) : NodeAt(soup, q).name = "a"}}

IsHeaderlink(link) == \E i \in 1..Len(link.class) : link.class[i] = Headerlink

\* C23: a link with non-empty text and an href that the walk reaches puts
\* [text](href) into the output; a link without text or with the headerlink
\* class puts nothing
C23_LinksEmitted ==
    (conv_pc = "done" /\ main_content # <<>>) =>
        \A link \in LinksOf(conv_html) :
            LET text == LinkText(link.children)
                markdown == <<"[">> \o text \o <<"]", "(">> \o link.href \o <<")">>
            IN  IF Strip(text) = <<>> \/ IsHeaderlink(link)
                THEN conv_result = <<<<"B", NL>>>>
                ELSE link.href # <<>> => IsSubstring(markdown, conv_result[1])
-----------------------------------------------------------------------------
(* split_into_sections: the sections against the headers *)

\* C24: when headers are found, both modes return one section per header, in
\* header order, section i with the title, level and anchor_id of header i
\* and starting on its line; the start lines increase strictly
C24_OneSectionPerHeader ==
    (Done /\ headers # <<>>) =>
        /\ Len(sections) = Len(headers)
        /\ \A i \in 1..Len(headers) :
               /\ sections[i].title = headers[i].title
               /\ sections[i].level = headers[i].level
               /\ sections[i].anchor_id = headers[i].anchor_id
               /\ sections[i].start_line = headers[i].line_number
        /\ \A i \in 1..(Len(sections) - 1) :
               sections[i].start_line < sections[i + 1].start_line

\* C24 witness: three headers of levels 3, 1, 2 were split into three sections
C24_Witness ==
    /\ Done
    /\ Len(sections) = 3
    /\ <<sections[1].level, sections[2].level, sections[3].level>> = <<3, 1, 2>>
    /\ <<sections[1].start_line, sections[2].start_line, sections[3].start_line>>
           = <<1, 2, 3>>

\* C25 as stated: every section has 1 <= start_line <= end_line <= number of
\* lines, and its content begins with its header line as the Markdown has it
C25_RangeAndRawHeaderLine ==
    Done =>
        \A i \in 1..Len(sections) :
            /\ 1 <= sections[i].start_line
            /\ sections[i].start_line <= sections[i].end_line
            /\ sections[i].end_line <= NumLines
            /\ headers # <<>> =>
                   StartsWith(sections[i].content, lines[sections[i].start_line])

\* C25 amended: every section has 1 <= start_line <= end_line <= number of
\* lines, and its content begins with its header line trimmed of the
\* whitespace around it
C25_RangeAndTrimmedHeaderLine ==
    Done =>
        \A i \in 1..Len(sections) :
            /\ 1 <= sections[i].start_line
            /\ sections[i].start_line <= sections[i].end_line
            /\ sections[i].end_line <= NumLines
            /\ headers # <<>> =>
                   StartsWith(sections[i].content, Trimmed(lines[sections[i].start_line]))

\* C25 witness: the section of the header line " ### c", followed by a text
\* line, begins with "### c"
C25_Witness ==
    /\ Done
    /\ Len(sections) = 1
    /\ sections[1].start_line = 2 /\ sections[1].end_line = 3
    /\ lines[2] = H3SpaceLine
    /\ StartsWith(sections[1].content, <<"#", "#", "#", " ", "c", NL>>)

\* C26: in hierarchical mode, of two sections the range of the later one lies
\* inside the range of the earlier one or the two ranges are disjoint
C26_Laminar ==
    (Done /\ splitting_mode = HIERARCHICAL) =>
        \A i \in 1..Len(sections) : \A j \in (i + 1)..Len(sections) :
            \/ /\ sections[i].start_line <= sections[j].start_line
               /\ sections[j].end_line <= sections[i].end_line
            \/ sections[i].end_line < sections[j].start_line

\* C26 witness: levels 1, 2, 1: the second range lies inside the first and
\* the third is disjoint from both
C26_Witness ==
    /\ Done
    /\ splitting_mode = HIERARCHICAL
    /\ Len(sections) = 3
    /\ <<sections[1].level, sections[2].level, sections[3].level>> = <<1, 2, 1>>
    /\ <<sections[1].start_line, sections[1].end_line>> = <<1, 2>>
    /\ <<sections[2].start_line, sections[2].end_line>> = <<2, 2>>
    /\ <<sections[3].start_line, sections[3].end_line>> = <<3, 3>>

\* header i is the last one, or the header after it is not deeper
NotFollowedByDeeper(i) ==
    i = Len(headers) \/ headers[i + 1].level <= headers[i].level

\* C27: for the same Markdown and headers the two modes give section i the
\* same start line and the hierarchical end line is not smaller; the end
\* lines are equal exactly when header i is last or followed by a header that
\* is not deeper, so without such a header the two results are the same
C27_ModesCompared ==
    (Done /\ headers # <<>>) =>
        LET hier == split_hierarchical(markdown_content, headers)
            flat == split_non_hierarchical(markdown_content, headers)
        IN  /\ sections = IF splitting_mode = HIERARCHICAL THEN hier ELSE flat
            /\ Len(hier) = Len(flat)
            /\ \A i \in 1..Len(hier) :
                   /\ hier[i].start_line = flat[i].start_line
                   /\ hier[i].end_line >= flat[i].end_line
                   /\ hier[i].end_line = flat[i].end_line <=> NotFollowedByDeeper(i)
            /\ (\A i \in 1..Len(headers) : NotFollowedByDeeper(i)) => hier = flat

\* C27 witness: levels 1, 2: hierarchically the first section runs to the
\* end, and the result differs from the non-hierarchical one
C27_Witness ==
    /\ Done
    /\ splitting_mode = HIERARCHICAL
    /\ Len(headers) = 2
    /\ headers[1].level < headers[2].level
    /\ sections[1].end_line = NumLines
    /\ sections # split_non_hierarchical(markdown_content, headers)
-----------------------------------------------------------------------------
(* The converter's output parsed: convert_html_to_markdown on a document that
   holds a code block, then parse_markdown_headers on the Markdown returned *)

MaxCodeLines == 3

CodeHashLine == <<"#", " ", "x">>

\* the lines a code text is made of
CodeLineSet == {CodeHashLine, BacktickFence, TildeFence, <<"x">>, Indent4Line, BlankLine}

\* the code texts of 1 to max lines
CodeLinesUpTo(max) == {Join(ls) : ls \in UNION {[1..n -> CodeLineSet] : n \in 1..max}}

PipelineShapes == {"pre", "cells", "table"}

\* a code block of each kind process_element hands to process_code_block
PipelineBlock(shape, t) ==
    IF shape = "table"
    THEN Element("table", <<Highlighttable>>,
             <<Element("td", <<Linenos>>, <<TextNode(<<"1">>)>>),
               Element("td", <<<<"c", "o", "d", "e">>>>, <<TextNode(t)>>)>>)
    ELSE CodeBlock(shape, t)

\* the text after the block: none, or a line that is a header of the page
AfterBlock == {<<>>, <<TextNode(<<"#", " ", "T">>)>>}

\* a new converter and a new splitter; the document is empty or a body with
\* the text "B", a code block and the text after it
InitPipeline ==
    /\ GitlabIdle /\ BlobIdle
    /\ SlugIdle /\ UrlIdle /\ ExtractIdle /\ CleanIdle
    /\ SplitIdle
    /\ \/ conv_html = <<>>
       \/ \E shape \in PipelineShapes : \E t \in CodeLinesUpTo(MaxCodeLines) :
              \E after \in AfterBlock :
                  conv_html = <<BodyNode(<<PipelineBlock(shape, t)>> \o after)>>
    /\ conv_pc = "find"
    /\ main_content = <<>>
    /\ output_lines = <<>>
    /\ conv_result = <<>>

\* parse_markdown_headers(markdown_content, {}) is called on what the
\* converter returned (lines 112-115)
ParseOutput ==
    /\ conv_pc = "done"
    /\ pc = "idle"
    /\ markdown_content' = conv_result[1]
    /\ lines' = Split(conv_result[1])
    /\ pc' = "parse"
    /\ line_num' = 0
    /\ in_code_block' = FALSE
    /\ code_block_marker' = None
    /\ headers' = <<>>
    /\ UNCHANGED <<section_anchors, splitting_mode, sections>>
    /\ UNCHANGED otherVars

NextPipeline ==
    \/ FindContent
    \/ ReturnError
    \/ ProcessContent
    \/ ReturnMarkdown
    \/ ParseOutput
    \/ FenceOpen
    \/ FenceClose
    \/ FenceOther
    \/ SkipInCodeBlock
    \/ SkipIndented
    \/ AppendHeader
    \/ NotAHeader

SpecPipeline == InitPipeline /\ [][NextPipeline]_vars

\* the positions, in ls, of the lines the loop of clean_markdown keeps, by
\* the tests of that loop
RECURSIVE KeptFrom(_, _, _)
KeptFrom(ls, i, prev_line_empty) ==
    IF i > Len(ls) THEN <<>>
    ELSE LET ln == RStrip(ls[i])
         IN  IF IsSymbolLine(ln) \/ IsNumberLine(ln) \/ IsDateLine(ln) \/ ln = <<",">>
             THEN KeptFrom(ls, i + 1, prev_line_empty)
             ELSE IF ln = <<>>
             THEN (IF prev_line_empty THEN <<>> ELSE <<i>>) \o KeptFrom(ls, i + 1, TRUE)
             ELSE <<i>> \o KeptFrom(ls, i + 1, FALSE)

\* the lines the converter wrote, before clean_markdown
WrittenLines == Split(Join(output_lines))

\* the positions in WrittenLines of the lines of code between the opening
\* and the closing fence line that process_code_block wrote
CodeLinesWritten ==
    IF Len(output_lines) >= 4 /\ StartsWith(output_lines[2], BacktickFence)
    THEN 3..(2 + Len(Split(output_lines[3])))
    ELSE {}

\* line k of the converter's output is line Origin(k) of WrittenLines; 0 for
\* the empty line after the final newline
Origin(k) ==
    LET kept == KeptFrom(WrittenLines, 1, FALSE)
    IN  IF k <= Len(kept) THEN kept[k] ELSE 0

\* the positions line up: every line of the output is the line of its origin
OriginsAgree ==
    (pc = "parse" /\ main_content # <<>>) =>
        \A k \in 1..Len(lines) :
            Origin(k) # 0 => lines[k] = RStrip(WrittenLines[Origin(k)])

\* C28: no line of code that the converter wrote between the two fence lines
\* of a block is reported as a header by parse_markdown_headers run on the
\* converter's output
C28_CodeLinesNeverHeaders ==
    pc = "parse" =>
        \A i \in 1..Len(headers) : Origin(headers[i].line_number) \notin CodeLinesWritten

\* a code line "# x" that follows no backtick line of the code is not reported
C28_HashLineInFence ==
    /\ pc = "parse" /\ line_num = Len(lines)
    /\ Len(output_lines) >= 4
    /\ output_lines[3] = Join(<<TildeFence, CodeHashLine>>)
    /\ headers = <<>>
-----------------------------------------------------------------------------
(* GitlabConnector.poll_source(start, end): _fetch_from_gitlab with
   include_mrs and include_issues on and include_code_files off, credentials
   loaded.  Times are seconds since the epoch. *)

MaxMergeRequests == 2
MaxIssues == 2
MaxBatchSize == 2
MaxTime == 3

Times == 0..MaxTime

MergeRequest(i, t) == [web_url |-> <<"mr", i>>, updated_at |-> t]

Issue(i, t) == [web_url |-> <<"issue", i>>, updated_at |-> t]

\* line 57-66 and 72-82: the fields of the Document the properties read
convert_merge_request_to_document(mr) ==
    [id |-> mr.web_url, doc_updated_at |-> mr.updated_at]

convert_issue_to_document(issue) ==
    [id |-> issue.web_url, doc_updated_at |-> issue.updated_at]

\* the merge requests come ordered by updated_at, latest first (line 191);
\* the issues come in the order of the server (line 212)
InitGitlab ==
    /\ BlobIdle
    /\ SplitIdle /\ SlugIdle /\ UrlIdle /\ ExtractIdle /\ CleanIdle /\ ConvertIdle
    /\ \E n \in 0..MaxMergeRequests : \E f \in [1..n -> Times] :
           /\ \A i \in 1..(n - 1) : f[i] >= f[i + 1]
           /\ gl_merge_requests = [i \in 1..n |-> MergeRequest(i, f[i])]
    /\ \E n \in 0..MaxIssues : \E f \in [1..n -> Times] :
           gl_issues = [i \in 1..n |-> Issue(i, f[i])]
    /\ gl_batch_size \in 1..MaxBatchSize
    /\ gl_start = 1
    /\ gl_end = 2
    /\ gl_pc = "mrs"
    /\ gl_index = 0
    /\ gl_doc_batch = <<>>
    /\ gl_yielded = <<>>

gitlabInputs == <<gl_merge_requests, gl_issues, gl_batch_size, gl_start, gl_end>>

gitlabOthers == <<markdown_content, section_anchors, splitting_mode, pc, lines, line_num,
                  in_code_block, code_block_marker, headers, sections,
                  slug_title, slug_anchor, url_base_url, url_anchor_id, url_result,
                  html_headers, clean_content, clean_result, clean_calls,
                  conv_html, conv_pc, main_content, output_lines, conv_result, blobVars>>

\* lines 39-47: the object after gl_index is the last one of its batch
LastOfBatch(objects) ==
    (gl_index + 1) % gl_batch_size = 0 \/ gl_index + 1 = Len(objects)

\* the end of the body of the inner loop: the next object of the batch, or
\* the yield of the batch after its last object (lines 209, 230)
NextObject(objects, doc_batch) ==
    /\ gl_index' = gl_index + 1
    /\ IF LastOfBatch(objects)
       THEN gl_yielded' = Append(gl_yielded, doc_batch) /\ gl_doc_batch' = <<>>
       ELSE gl_yielded' = gl_yielded /\ gl_doc_batch' = doc_batch
    /\ UNCHANGED gl_pc

\* yield doc_batch; return (lines 203-204, 222-223)
YieldAndReturn ==
    /\ gl_yielded' = Append(gl_yielded, gl_doc_batch)
    /\ gl_pc' = "done"
    /\ UNCHANGED <<gl_index, gl_doc_batch>>

\* lines 200-204
MergeRequestBeforeStart ==
    /\ gl_pc = "mrs" /\ gl_index < Len(gl_merge_requests)
    /\ gl_merge_requests[gl_index + 1].updated_at < gl_start
    /\ YieldAndReturn
    /\ UNCHANGED <<gitlabInputs, gitlabOthers>>

\* lines 205-206
MergeRequestAfterEnd ==
    /\ gl_pc = "mrs" /\ gl_index < Len(gl_merge_requests)
    /\ ~(gl_merge_requests[gl_index + 1].updated_at < gl_start)
    /\ gl_merge_requests[gl_index + 1].updated_at > gl_end
    /\ NextObject(gl_merge_requests, gl_doc_batch)
    /\ UNCHANGED <<gitlabInputs, gitlabOthers>>

\* line 207
MergeRequestAppend ==
    /\ gl_pc = "mrs" /\ gl_index < Len(gl_merge_requests)
    /\ ~(gl_merge_requests[gl_index + 1].updated_at < gl_start)
    /\ ~(gl_merge_requests[gl_index + 1].updated_at > gl_end)
    /\ NextObject(gl_merge_requests,
           Append(gl_doc_batch,
                  convert_merge_request_to_document(gl_merge_requests[gl_index + 1])))
    /\ UNCHANGED <<gitlabInputs, gitlabOthers>>

\* lines 195, 211-214: the merge requests are exhausted
MergeRequestsDone ==
    /\ gl_pc = "mrs" /\ gl_index = Len(gl_merge_requests)
    /\ gl_pc' = "issues"
    /\ gl_index' = 0
    /\ gl_doc_batch' = <<>>
    /\ UNCHANGED gl_yielded
    /\ UNCHANGED <<gitlabInputs, gitlabOthers>>

\* lines 219-223
IssueBeforeStart ==
    /\ gl_pc = "issues" /\ gl_index < Len(gl_issues)
    /\ gl_issues[gl_index + 1].updated_at < gl_start
    /\ YieldAndReturn
    /\ UNCHANGED <<gitlabInputs, gitlabOthers>>

\* lines 224-227
IssueAfterEnd ==
    /\ gl_pc = "issues" /\ gl_index < Len(gl_issues)
    /\ ~(gl_issues[gl_index + 1].updated_at < gl_start)
    /\ gl_issues[gl_index + 1].updated_at > gl_end
    /\ NextObject(gl_issues, gl_doc_batch)
    /\ UNCHANGED <<gitlabInputs, gitlabOthers>>

\* line 228
IssueAppend ==
    /\ gl_pc = "issues" /\ gl_index < Len(gl_issues)
    /\ ~(gl_issues[gl_index + 1].updated_at < gl_start)
    /\ ~(gl_issues[gl_index + 1].updated_at > gl_end)
    /\ NextObject(gl_issues,
           Append(gl_doc_batch, convert_issue_to_document(gl_issues[gl_index + 1])))
    /\ UNCHANGED <<gitlabInputs, gitlabOthers>>

\* line 214: the issues are exhausted and the generator ends
IssuesDone ==
    /\ gl_pc = "issues" /\ gl_index = Len(gl_issues)
    /\ gl_pc' = "done"
    /\ UNCHANGED <<gl_index, gl_doc_batch, gl_yielded>>
    /\ UNCHANGED <<gitlabInputs, gitlabOthers>>

NextGitlab ==
    \/ MergeRequestBeforeStart
    \/ MergeRequestAfterEnd
    \/ MergeRequestAppend
    \/ MergeRequestsDone
    \/ IssueBeforeStart
    \/ IssueAfterEnd
    \/ IssueAppend
    \/ IssuesDone

SpecGitlab == InitGitlab /\ [][NextGitlab]_vars

\* the documents of all the batches yielded
YieldedDocuments ==
    {gl_yielded[b][k] : <<b, k>> \in
        {p \in (1..Len(gl_yielded)) \X (1..MaxMergeRequests + MaxIssues) :
            p[2] <= Len(gl_yielded[p[1]])}}

\* C29: when the generator has ended, every issue whose updated_at lies in
\* [start, end] has its document in a yielded batch
C29_IssuesInWindowYielded ==
    gl_pc = "done" =>
        \A i \in 1..Len(gl_issues) :
            (gl_start <= gl_issues[i].updated_at /\ gl_issues[i].updated_at <= gl_end)
                => convert_issue_to_document(gl_issues[i]) \in YieldedDocuments

\* with no merge request before start and the issues latest first, the issues
\* of the window are yielded
C29_IssueYielded ==
    /\ gl_pc = "done"
    /\ Len(gl_issues) = 2
    /\ convert_issue_to_document(gl_issues[1]) \in YieldedDocuments
    /\ convert_issue_to_document(gl_issues[2]) \in YieldedDocuments
-----------------------------------------------------------------------------
(* BackstageConnector._yield_blob_objects(start, end), the S3 client set.
   blob_objects holds what the two loops visit, in order: an object of a page
   or a page without "Contents". *)

MaxObjects == 3

IndexHtml == "index.html"

\* the keys: a directory name, "/" and a file name
IndexKey(i) == <<i, "/", IndexHtml>>
DirectoryKey(i) == <<i, "/">>
OtherKey(i) == <<i, "/", "x.txt">>

NoContents == [Contents |-> FALSE]

\* raises says whether the download or the processing of the object raises
BlobObject(key, t, raises) ==
    [Contents |-> TRUE, Key |-> key, LastModified |-> t, raises |-> raises]

EntryKinds ==
    {"at start", "at end", "raises", "before start", "after end", "other", "directory",
     "no contents"}

\* entry i of the listing, of the given kind, for the window [from, to]
Entry(kind, i, from, to) ==
    CASE kind = "at start" -> BlobObject(IndexKey(i), from, FALSE)
      [] kind = "at end" -> BlobObject(IndexKey(i), to, FALSE)
      [] kind = "raises" -> BlobObject(IndexKey(i), from, TRUE)
      [] kind = "before start" -> BlobObject(IndexKey(i), from - 1, FALSE)
      [] kind = "after end" -> BlobObject(IndexKey(i), to + 1, FALSE)
      [] kind = "other" -> BlobObject(OtherKey(i), from, FALSE)
      [] kind = "directory" -> BlobObject(DirectoryKey(i), from, FALSE)
      [] kind = "no contents" -> NoContents

InitBlob ==
    /\ GitlabIdle
    /\ SplitIdle /\ SlugIdle /\ UrlIdle /\ ExtractIdle /\ CleanIdle /\ ConvertIdle
    /\ blob_start = 1
    /\ blob_end = 2
    /\ \E n \in 0..MaxObjects : \E f \in [1..n -> EntryKinds] :
           blob_objects = [i \in 1..n |-> Entry(f[i], i, 1, 2)]
    /\ blob_batch_size \in 1..MaxBatchSize
    /\ blob_pc = "list"
    /\ blob_index = 0
    /\ blob_batch = <<>>
    /\ blob_yielded = <<>>

blobInputs == <<blob_objects, blob_batch_size, blob_start, blob_end>>

blobOthers == <<markdown_content, section_anchors, splitting_mode, pc, lines, line_num,
                in_code_block, code_block_marker, headers, sections,
                slug_title, slug_anchor, url_base_url, url_anchor_id, url_result,
                html_headers, clean_content, clean_result, clean_calls,
                conv_html, conv_pc, main_content, output_lines, conv_result, gitlabVars>>

\* key.endswith(suffix), on the parts of the key
EndsWith(key, suffix) == key # <<>> /\ key[Len(key)] = suffix

\* line 156: the key is not skipped
IsIndexKey(key) == ~(EndsWith(key, "/") \/ ~EndsWith(key, IndexHtml))

\* the mutant of InWindow: an object modified at end is left out
InWindowBeforeEnd(obj) ==
    blob_start <= obj.LastModified /\ obj.LastModified < blob_end

\* line 161: start <= last_modified <= end
InWindow(obj) ==
    blob_start <= obj.LastModified /\ obj.LastModified <= blob_end

\* lines 183-195: the fields of the Document the properties read
BlobDocument(obj) == [id |-> obj.Key, doc_updated_at |-> obj.LastModified]

Listing == blob_pc = "list" /\ blob_index < Len(blob_objects)

obj == blob_objects[blob_index + 1]

\* continue
NextEntry ==
    /\ blob_index' = blob_index + 1
    /\ UNCHANGED <<blob_pc, blob_batch, blob_yielded>>
    /\ UNCHANGED <<blobInputs, blobOthers>>

\* lines 148-149
SkipPage ==
    /\ Listing
    /\ ~obj.Contents
    /\ NextEntry

\* lines 156-157
SkipKey ==
    /\ Listing
    /\ obj.Contents
    /\ ~IsIndexKey(obj.Key)
    /\ NextEntry

\* lines 161-162
SkipOutOfWindow ==
    /\ Listing
    /\ obj.Contents
    /\ IsIndexKey(obj.Key)
    /\ ~InWindow(obj)
    /\ NextEntry

\* lines 166-180, 201-204: the download or the processing raises
ProcessRaises ==
    /\ Listing
    /\ obj.Contents
    /\ IsIndexKey(obj.Key)
    /\ InWindow(obj)
    /\ obj.raises
    /\ NextEntry

\* lines 166-199
AppendDocument ==
    /\ Listing
    /\ obj.Contents
    /\ IsIndexKey(obj.Key)
    /\ InWindow(obj)
    /\ ~obj.raises
    /\ LET batch == Append(blob_batch, BlobDocument(obj))
       IN  IF Len(batch) = blob_batch_size
           THEN blob_yielded' = Append(blob_yielded, batch) /\ blob_batch' = <<>>
           ELSE blob_yielded' = blob_yielded /\ blob_batch' = batch
    /\ blob_index' = blob_index + 1
    /\ UNCHANGED blob_pc
    /\ UNCHANGED <<blobInputs, blobOthers>>

\* lines 206-207: the listing is exhausted and a batch is left
YieldLastBatch ==
    /\ blob_pc = "list" /\ blob_index = Len(blob_objects)
    /\ blob_batch # <<>>
    /\ blob_yielded' = Append(blob_yielded, blob_batch)
    /\ blob_pc' = "done"
    /\ UNCHANGED <<blob_index, blob_batch>>
    /\ UNCHANGED <<blobInputs, blobOthers>>

\* line 206: the listing is exhausted and no batch is left
ReturnNoBatch ==
    /\ blob_pc = "list" /\ blob_index = Len(blob_objects)
    /\ blob_batch = <<>>
    /\ blob_pc' = "done"
    /\ UNCHANGED <<blob_index, blob_batch, blob_yielded>>
    /\ UNCHANGED <<blobInputs, blobOthers>>

NextBlob ==
    \/ SkipPage
    \/ SkipKey
    \/ SkipOutOfWindow
    \/ ProcessRaises
    \/ AppendDocument
    \/ YieldLastBatch
    \/ ReturnNoBatch

\* the caller takes batches until the generator ends
SpecBlob == InitBlob /\ [][NextBlob]_vars /\ WF_vars(NextBlob)

\* the listed object is to be delivered
Deliverable(o) == o.Contents /\ EndsWith(o.Key, IndexHtml) /\ ~o.raises
                      /\ blob_start <= o.LastModified /\ o.LastModified <= blob_end

\* the documents of the deliverable objects among the first n entries, in
\* listing order
RECURSIVE DocumentsDue(_)
DocumentsDue(n) ==
    IF n = 0 THEN <<>>
    ELSE IF Deliverable(blob_objects[n])
         THEN Append(DocumentsDue(n - 1), BlobDocument(blob_objects[n]))
         ELSE DocumentsDue(n - 1)

\* what was yielded so far, with the batch in the making, is what was due
\* from the entries consumed; every yielded batch has 1 to batch_size documents
BlobDelivery ==
    /\ Concat(blob_yielded) \o (IF blob_pc = "done" THEN <<>> ELSE blob_batch)
           = DocumentsDue(blob_index)
    /\ \A b \in 1..Len(blob_yielded) :
           Len(blob_yielded[b]) >= 1 /\ Len(blob_yielded[b]) <= blob_batch_size

====
